---- MODULE Spec2Model ----
(***************************************************************************)
(* Order queue reconciliation (queue_eod.py, queue_daily.py) and the       *)
(* morning executor (executor_morning.py) with its broker adapter          *)
(* (adapters/alpaca.py), as one state machine over the persisted queue     *)
(* document orders_queue.json.                                             *)
(*                                                                         *)
(* Representation of Python values:                                        *)
(*   - a missing key and None are the same value (dict.get): None for      *)
(*     strings, 0 for order_id (falsy, as in `if o.get("order_id")`),      *)
(*     << >> (NoLimit) for limit_price; a float price x is Float(x);       *)
(*   - a ticker is a sequence of one-character strings, so that strip(),   *)
(*     upper() and the ticker pattern are computed character by character; *)
(*   - other strings fold case through the tables Lower and Upper;         *)
(*   - sha256(...)[:16] is modelled as injective on the joined string.     *)
(***************************************************************************)
EXTENDS Integers, Sequences, FiniteSets, TLC

VARIABLES
    disk,          \* orders_queue.json: the persisted list of orders
    rec_pc,        \* reconciliation (queue_eod/queue_daily main): "idle" | "loaded" | "done"
    rec_json,      \* model_json of the running reconciliation
    rec_new,       \* new_orders of the running reconciliation
    rec_existing,  \* existing, as read from the queue document
    rec_result,    \* how the last reconciliation ended
    ex_pc,         \* executor main: "idle" | "gate" | "submit" | "poll" | "settle" | "done"
    ex_time,       \* <<hour, minute>> US/Eastern read by the gate, << >> otherwise
    queue,         \* executor's in-memory queue
    ex_i,          \* index of the submission loop
    known_ids,     \* known_ids of the poll loop
    ex_polls,      \* poll iterations done in this cycle
    ex_result,     \* how the cycle ended
    next_oid,      \* the next order id the broker issues
    runs,          \* invocations started so far
    calls,         \* history: the _submit_one calls of this cycle: index, order passed, response
    ex_applied,    \* history: the Portfolio Store applications of this cycle
    applied_count, \* history: per broker order id, how often it was applied to the portfolio (capped at 2)
    ex_reported,   \* history: the order ids issued in this cycle for which list_orders showed a terminal status
    co_pc,         \* coalescer harness: "off" | "in" | "once" | "twice"
    co_in,         \* coalescer harness: the input list
    co_out,        \* coalescer harness: _coalesce_pending(co_in)
    co_out2,       \* coalescer harness: _coalesce_pending(co_out)
    fs,            \* queue write: the files orders_queue.json and orders_queue.json.tmp
    wr_pc,         \* queue write (_write_json, _write_queue): "off" | "idle" | "open" | "dump" | "replace"
    wr_data,       \* queue write: the document being written
    wr_old,        \* history: orders_queue.json when the running (or last) write began
    fn_pc,         \* function harness: "off" | "in" | "out"
    fn_in,         \* function harness: the argument of the call
    fn_out         \* function harness: what the call returned or raised

recvars == <<rec_pc, rec_json, rec_new, rec_existing, rec_result>>
exvars == <<ex_pc, ex_time, queue, ex_i, known_ids, ex_polls, ex_result>>
histvars == <<calls, ex_applied, applied_count, ex_reported>>
covars == <<co_pc, co_in, co_out, co_out2>>
sysvars == <<disk, recvars, exvars, next_oid, runs, histvars>>
wrvars == <<fs, wr_pc, wr_data, wr_old>>
fnvars == <<fn_pc, fn_in, fn_out>>
vars == <<sysvars, covars, wrvars, fnvars>>

----------------------------------------------------------------------------
\* Bounds of the model.

\* invocations (reconciliations and executor cycles) in one behaviour
MaxRuns == 3
\* poll iterations before the 10 minute timeout ends the loop
MaxPolls == 2
\* length of the coalescer harness's input list
MaxItems == 2

----------------------------------------------------------------------------
\* Python values.

None == "None"
NoLimit == << >>
Float(x) == <<x>>

\* float(limit_price) if limit_price is not None else None
FloatOrNone(lp) == IF lp = NoLimit THEN NoLimit ELSE Float(lp[1])

\* int(float(q)) of a number given as <<n>> (the int n) or <<n, d>> (the float n/d):
\* the fraction is cut off towards zero
IntOfFloat(q) ==
    IF Len(q) = 1 THEN q[1]
    ELSE IF q[1] >= 0 THEN q[1] \div q[2] ELSE -((-q[1]) \div q[2])

\* str.lower() on the strings of the model
Lower(s) ==
    CASE s = "BUY" -> "buy"
      [] s = "Sell" -> "sell"
      [] s = "NEW" -> "new"
      [] OTHER -> s

\* str.upper() on the strings of the model
Upper(s) ==
    CASE s = "moo" -> "MOO"
      [] s = "loo" -> "LOO"
      [] OTHER -> s

\* str() of an int
StrInt(n) == ToString(n)

\* str() of a float with an integral value: 10.0 -> "10.0"
StrFloat(x) == ToString(x) \o ".0"

\* one character of str.upper()
UpperChar(c) ==
    CASE c = "a" -> "A"
      [] c = "b" -> "B"
      [] OTHER -> c

UpperSeq(t) == [i \in DOMAIN t |-> UpperChar(t[i])]

RECURSIVE LStrip(_)
LStrip(t) == IF t # << >> /\ Head(t) = " " THEN LStrip(Tail(t)) ELSE t

RECURSIVE RStrip(_)
RStrip(t) ==
    IF t # << >> /\ t[Len(t)] = " " THEN RStrip(SubSeq(t, 1, Len(t) - 1)) ELSE t

\* str.strip()
Strip(t) == RStrip(LStrip(t))

\* the characters of [A-Z.\-]
TickerChars == {"A", "B", ".", "-"}

\* _hash_id: sha256 of "|".join(parts), first 16 hex digits
HashId(parts) == <<"sha256">> \o parts

\* _norm_status
NormStatus(value) == IF value = None THEN "" ELSE Lower(value)

\* mutant of IsFinalStatus: an error status counts as final
IsFinalStatusWithError(status) ==
    \/ NormStatus(status) \in {"filled", "cancelled", "canceled"}
    \/ NormStatus(status) \in {"error: rejected", "error: Invalid order payload for Alpaca"}

\* _is_final_status
IsFinalStatus(status) == NormStatus(status) \in {"filled", "cancelled", "canceled"}

----------------------------------------------------------------------------
\* Intent Normalizer (_normalize_orders).

\* max(a, b)
Max(a, b) == IF a >= b THEN a ELSE b

\* mutant of StrictUpperTicker: surrounding blanks are not stripped
StrictUpperTickerUnstripped(t) ==
    LET up == UpperSeq(t)
    IN IF up # << >> /\ \A i \in DOMAIN up : up[i] \in TickerChars THEN up ELSE << >>

\* _strict_upper_ticker: the upper-cased ticker, or << >> when it raises ValueError
StrictUpperTicker(t) ==
    LET up == UpperSeq(Strip(t))
    IN IF up # << >> /\ \A i \in DOMAIN up : up[i] \in TickerChars THEN up ELSE << >>

\* qty of add(): an explicit quantity wins over percent (held in hundredths, sized at
\* approx_price 1.0); << >> when neither is given
ItemQty(item, cash) ==
    IF item.quantity # << >> THEN <<IntOfFloat(item.quantity)>>
    ELSE IF item.percent # << >>
         THEN <<Max(1, (cash * item.percent[1]) \div 100)>>
         ELSE << >>

\* mutant of ItemValid: a LOO intent is taken without looking at its limit_price
ItemValidLooUnchecked(item, cash) ==
    /\ StrictUpperTicker(item.ticker) # << >>
    /\ ItemQty(item, cash) # << >>
    /\ ItemQty(item, cash)[1] > 0
    /\ Upper(item.order_type) \in {"MOO", "LOO"}

\* add() returns normally for this item
ItemValid(item, cash) ==
    /\ StrictUpperTicker(item.ticker) # << >>
    /\ ItemQty(item, cash) # << >>
    /\ ItemQty(item, cash)[1] > 0
    /\ Upper(item.order_type) \in {"MOO", "LOO"}
    /\ ~(Upper(item.order_type) = "LOO"
         /\ (item.limit_price = NoLimit \/ item.limit_price[1] <= 0))

\* str(limit_price or "") on the raw limit price of an intent: <<n>> is the int n,
\* <<n, 1>> the float n.0
StrRawLimit(lp) ==
    IF lp = NoLimit \/ lp[1] = 0 THEN ""
    ELSE IF Len(lp) = 1 THEN StrInt(lp[1]) ELSE StrFloat(lp[1])

\* mutant of NormalizeItem: the id is hashed from the ticker as the intent spelled it
NormalizeItemHashingRawTicker(side, item, cash) ==
    LET ticker == StrictUpperTicker(item.ticker)
        qty == ItemQty(item, cash)[1]
        order_type == Upper(item.order_type)
    IN [id |-> HashId(<<item.ticker, side, StrInt(qty), order_type,
                        StrRawLimit(item.limit_price)>>),
        ticker |-> ticker,
        side |-> Lower(side),
        quantity |-> qty,
        order_type |-> order_type,
        limit_price |-> FloatOrNone(item.limit_price),
        validity |-> "next_open",
        rationale |-> "LLM decision",
        status |-> None,
        order_id |-> 0]

\* the order add() appends
NormalizeItem(side, item, cash) ==
    LET ticker == StrictUpperTicker(item.ticker)
        qty == ItemQty(item, cash)[1]
        order_type == Upper(item.order_type)
    IN [id |-> HashId(<<ticker, side, StrInt(qty), order_type, StrRawLimit(item.limit_price)>>),
        ticker |-> ticker,
        side |-> Lower(side),
        quantity |-> qty,
        order_type |-> order_type,
        limit_price |-> FloatOrNone(item.limit_price),
        validity |-> "next_open",
        rationale |-> "LLM decision",
        status |-> None,
        order_id |-> 0]

\* mutant of NormalizeOrders: an intent that fails validation is left out and the
\* others are kept
NormalizeOrdersSkippingInvalid(model_json, cash) ==
    LET valid(item) == ItemValid(item, cash)
        buys == SelectSeq(model_json.buy, valid)
        sells == SelectSeq(model_json.sell, valid)
    IN [ok |-> TRUE,
        orders |-> [i \in DOMAIN buys |-> NormalizeItem("buy", buys[i], cash)]
                   \o [i \in DOMAIN sells |-> NormalizeItem("sell", sells[i], cash)]]

\* _normalize_orders: ok is FALSE when some add() raises ValueError
NormalizeOrders(model_json, cash) ==
    LET buys == model_json.buy
        sells == model_json.sell
    IN [ok |-> /\ \A i \in DOMAIN buys : ItemValid(buys[i], cash)
               /\ \A i \in DOMAIN sells : ItemValid(sells[i], cash),
        orders |-> IF /\ \A i \in DOMAIN buys : ItemValid(buys[i], cash)
                      /\ \A i \in DOMAIN sells : ItemValid(sells[i], cash)
                   THEN [i \in DOMAIN buys |-> NormalizeItem("buy", buys[i], cash)]
                        \o [i \in DOMAIN sells |-> NormalizeItem("sell", sells[i], cash)]
                   ELSE << >>]

----------------------------------------------------------------------------
\* Coalescer (_coalesce_pending).

\* mutant of BucketKey: the quantity is part of the key
BucketKeyWithQuantity(it) ==
    <<UpperSeq(it.ticker), Lower(it.side), Upper(it.order_type), FloatOrNone(it.limit_price),
      it.quantity>>

\* key of the buckets dict
BucketKey(it) ==
    <<UpperSeq(it.ticker), Lower(it.side), Upper(it.order_type), FloatOrNone(it.limit_price)>>

\* mutant of CoSkipsItem: qty < 0
CoSkipsItemOnlyNegative(it) == it.quantity < 0

\* qty <= 0: the item is skipped
CoSkipsItem(it) == it.quantity <= 0

\* index of the bucket with this key, 0 when the key is new
BucketIndex(buckets, key) ==
    LET hit == {j \in DOMAIN buckets : buckets[j].key = key}
    IN IF hit = {} THEN 0 ELSE CHOOSE j \in hit : TRUE

\* mutant of NewBucket: the bucket starts at the first item's quantity, which the loop
\* then adds once more
NewBucketCountingFirst(it) ==
    [key |-> BucketKey(it),
     ticker |-> UpperSeq(it.ticker),
     side |-> Lower(it.side),
     quantity |-> it.quantity,
     order_type |-> Upper(it.order_type),
     limit_price |-> FloatOrNone(it.limit_price),
     validity |-> "next_open",
     rationale |-> IF it.rationale \in {None, ""} THEN "LLM decision" ELSE it.rationale]

\* the bucket created for the first item of a key
NewBucket(it) ==
    [key |-> BucketKey(it),
     ticker |-> UpperSeq(it.ticker),
     side |-> Lower(it.side),
     quantity |-> 0,
     order_type |-> Upper(it.order_type),
     limit_price |-> FloatOrNone(it.limit_price),
     validity |-> "next_open",
     rationale |-> IF it.rationale \in {None, ""} THEN "LLM decision" ELSE it.rationale]

\* mutant of AddToBuckets: the quantity of the item that opens a bucket is not added
AddToBucketsOpeningUncounted(buckets, it) ==
    IF CoSkipsItem(it) THEN buckets
    ELSE LET j == BucketIndex(buckets, BucketKey(it))
         IN IF j = 0 THEN Append(buckets, NewBucket(it))
            ELSE [buckets EXCEPT ![j].quantity = @ + it.quantity]

\* mutant of AddToBuckets: a new bucket is put before the buckets there are
AddToBucketsNewestFirst(buckets, it) ==
    IF CoSkipsItem(it) THEN buckets
    ELSE LET j == BucketIndex(buckets, BucketKey(it))
         IN IF j = 0 THEN <<[NewBucket(it) EXCEPT !.quantity = it.quantity]>> \o buckets
            ELSE [buckets EXCEPT ![j].quantity = @ + it.quantity]

\* one iteration of the loop over items
AddToBuckets(buckets, it) ==
    IF CoSkipsItem(it) THEN buckets
    ELSE LET j == BucketIndex(buckets, BucketKey(it))
             bs == IF j = 0 THEN Append(buckets, NewBucket(it)) ELSE buckets
             k == IF j = 0 THEN Len(bs) ELSE j
         IN [bs EXCEPT ![k].quantity = @ + it.quantity]

\* buckets, in insertion order, after the first n items
RECURSIVE Buckets(_, _)
Buckets(items, n) ==
    IF n = 0 THEN << >> ELSE AddToBuckets(Buckets(items, n - 1), items[n])

\* str(b["limit_price"] or "") on a bucket's float limit price
StrBucketLimit(lp) == IF lp = NoLimit \/ lp[1] = 0 THEN "" ELSE StrFloat(lp[1])

\* item = {"id": oid, **b}
BucketOrder(b) ==
    [id |-> HashId(<<b.ticker, b.side, StrInt(b.quantity), b.order_type,
                     StrBucketLimit(b.limit_price)>>),
     ticker |-> b.ticker,
     side |-> b.side,
     quantity |-> b.quantity,
     order_type |-> b.order_type,
     limit_price |-> b.limit_price,
     validity |-> b.validity,
     rationale |-> b.rationale,
     status |-> None,
     order_id |-> 0]

CoalescePending(items) ==
    LET bs == Buckets(items, Len(items))
    IN [j \in DOMAIN bs |-> BucketOrder(bs[j])]

----------------------------------------------------------------------------
\* Queue Store: the queue document as a file (_orders_path, _read_json, _write_json of
\* queue_eod.py; _read_queue, _write_queue of executor_morning.py).

\* _orders_path()
QueuePath == "orders_queue.json"

\* mutant of TmpOf: the document is written in place
TmpOfSamePath(path) == path

\* path.with_suffix(path.suffix + ".tmp")
TmpOf(path) == path \o ".tmp"

\* a file that does not exist, and a file with this content
FileAbsent == [exists |-> FALSE, content |-> << >>]
FileOf(content) == [exists |-> TRUE, content |-> content]

\* the text json.dump(data, fh, indent=2) writes, in the pieces it reaches the file in
JsonDump(data) ==
    <<[t |-> "["]>> \o [i \in DOMAIN data |-> [t |-> "item", item |-> data[i]]] \o <<[t |-> "]"]>>

\* a JSON object holding these members, and the document null
JsonObject(members) ==
    <<[t |-> "{"]>> \o [i \in DOMAIN members |-> [t |-> "item", item |-> members[i]]]
        \o <<[t |-> "}"]>>
JsonNull == <<[t |-> "null"]>>

\* json.load: ok is FALSE when it raises (the text is not a complete document); list
\* tells whether the document is a JSON array
JsonLoad(text) ==
    IF /\ Len(text) >= 2
       /\ <<text[1].t, text[Len(text)].t>> \in {<<"[", "]">>, <<"{", "}">>}
       /\ \A i \in 2..(Len(text) - 1) : text[i].t = "item"
    THEN [ok |-> TRUE, list |-> text[1].t = "[",
          data |-> [i \in 1..(Len(text) - 2) |-> text[i + 1].item]]
    ELSE IF text = JsonNull
    THEN [ok |-> TRUE, list |-> FALSE, data |-> << >>]
    ELSE [ok |-> FALSE, list |-> FALSE, data |-> << >>]

\* mutant of ReadQueue: whatever document parses is taken as the queue
ReadQueueAnyDocument(file) ==
    IF file.exists /\ JsonLoad(file.content).ok THEN JsonLoad(file.content).data ELSE << >>

\* _read_queue: a missing or unparseable file, and a document that is not a list, read
\* as the empty queue
ReadQueue(file) ==
    IF file.exists /\ JsonLoad(file.content).ok /\ JsonLoad(file.content).list
    THEN JsonLoad(file.content).data
    ELSE << >>

\* _read_json: the parsed document, or None on any exception
ReadJson(file) ==
    IF file.exists /\ JsonLoad(file.content).ok
    THEN JsonLoad(file.content)
    ELSE [ok |-> FALSE, list |-> FALSE, data |-> << >>]

\* existing = _read_json(qpath), replaced by [] when it is not a list
ExistingOf(file) ==
    IF ReadJson(file).ok /\ ReadJson(file).list THEN ReadJson(file).data ELSE << >>

----------------------------------------------------------------------------
\* Reconciler (main of queue_eod.py; main of queue_daily.py has the same merge).

\* intents the decision source returns
MooItem ==
    [ticker |-> <<"a">>, quantity |-> <<1>>, percent |-> << >>,
     order_type |-> "moo", limit_price |-> NoLimit]
LooItem ==
    [ticker |-> <<"A">>, quantity |-> <<1>>, percent |-> << >>,
     order_type |-> "LOO", limit_price |-> <<10>>]
BadItem ==
    [ticker |-> <<"a", "1">>, quantity |-> <<1>>, percent |-> << >>,
     order_type |-> "MOO", limit_price |-> NoLimit]

\* the decision payloads {buy: [...], sell: [...]} of the model
Payloads ==
    { [buy |-> << >>, sell |-> << >>],
      [buy |-> <<MooItem>>, sell |-> << >>],
      [buy |-> <<MooItem, MooItem>>, sell |-> << >>],
      [buy |-> << >>, sell |-> <<LooItem>>],
      [buy |-> <<MooItem>>, sell |-> <<BadItem>>] }

\* cash of load_latest_portfolio_state
CashValues == {100}

\* no decision payload: no reconciliation is running
NoPayload == [buy |-> << >>, sell |-> << >>]

\* carry: not final, with an order_id
CarryOf(existing) ==
    LET keep(it) == ~IsFinalStatus(NormStatus(it.status)) /\ it.order_id # 0
    IN SelectSeq(existing, keep)

\* pending_existing: not final, without an order_id
PendingExistingOf(existing) ==
    LET keep(it) == ~IsFinalStatus(NormStatus(it.status)) /\ it.order_id = 0
    IN SelectSeq(existing, keep)

\* mutant of Merged: every non-final existing order is coalesced again
MergedRecoalescingCarried(existing, new_orders) ==
    CoalescePending(CarryOf(existing) \o PendingExistingOf(existing) \o new_orders)

\* mutant of Merged: the existing orders without an order_id are kept as they are found
MergedKeepingPending(existing, new_orders) ==
    CarryOf(existing) \o PendingExistingOf(existing) \o CoalescePending(new_orders)

\* merged = carry + _coalesce_pending(pending_existing + new_orders)
Merged(existing, new_orders) ==
    CarryOf(existing) \o CoalescePending(PendingExistingOf(existing) \o new_orders)

\* model_json is normalized (a ValueError ends the run before the queue is read),
\* then the queue document is read
RecLoadOn(model_jsons, existing) ==
    /\ rec_pc = "idle"
    /\ runs < MaxRuns
    /\ runs' = runs + 1
    /\ \E model_json \in model_jsons, cash \in CashValues :
          /\ rec_json' = model_json
          /\ LET n == NormalizeOrders(model_json, cash)
             IN IF n.ok
                THEN /\ rec_pc' = "loaded"
                     /\ rec_new' = n.orders
                     /\ rec_existing' = existing
                     /\ rec_result' = "none"
                ELSE /\ rec_pc' = "done"
                     /\ rec_new' = << >>
                     /\ rec_existing' = << >>
                     /\ rec_result' = "validation_error"
    /\ UNCHANGED <<disk, exvars, next_oid, histvars, covars, wrvars, fnvars>>

\* the reconciliation of the sequential model: the queue document is the list on disk
RecLoadStep == RecLoadOn(Payloads, disk)

\* a reconciliation is started while no executor cycle is running
RecLoad ==
    /\ ex_pc = "idle"
    /\ RecLoadStep

\* a reconciliation is started while an executor cycle is running
RecLoadOverlapping ==
    /\ ex_pc # "idle"
    /\ RecLoadStep

\* a reconciliation is started on the queue file as it is found
RecLoadFile ==
    /\ ex_pc = "idle"
    /\ RecLoadOn(Payloads, ExistingOf(fs[QueuePath]))

\* mutant of RecWrite: the queue document is read again right before the write
RecWriteRereading ==
    /\ rec_pc = "loaded"
    /\ LET merged == Merged(disk, rec_new)
       IN disk' = merged
    /\ rec_pc' = "done"
    /\ rec_result' = "written"
    /\ UNCHANGED <<rec_json, rec_new, rec_existing, exvars, next_oid, histvars,
                   runs, covars, wrvars, fnvars>>

\* partition, coalesce, _write_json(qpath, merged)
RecWrite ==
    /\ rec_pc = "loaded"
    /\ LET merged == Merged(rec_existing, rec_new)
       IN disk' = merged
    /\ rec_pc' = "done"
    /\ rec_result' = "written"
    /\ UNCHANGED <<rec_json, rec_new, rec_existing, exvars, next_oid, histvars,
                   runs, covars, wrvars, fnvars>>

\* the process exits
RecFinish ==
    /\ rec_pc = "done"
    /\ rec_pc' = "idle"
    /\ rec_json' = NoPayload
    /\ rec_new' = << >>
    /\ rec_existing' = << >>
    /\ rec_result' = "none"
    /\ UNCHANGED <<disk, exvars, next_oid, histvars, runs, covars, wrvars, fnvars>>

----------------------------------------------------------------------------
\* Broker adapter (AlpacaAdapter) and the broker behind it.

\* what the broker answers to a submission: a status of the created order, or a rejection
SubmitStatuses == {"accepted", "pending_new", None}
SubmitOutcomes == SubmitStatuses \cup {"rejected"}

\* the same, and a response object that has neither an id nor a status attribute
AnyResponseOutcomes == SubmitOutcomes \cup {"empty"}

\* what list_orders reports for one order id: not listed, or a status
PollInfos == {"absent", "new", "filled", "canceled", "cancelled"}

\* a ticker that is None (or not in the dict), and str() of a ticker
NoTicker == <<None>>
StrTicker(t) == IF t = NoTicker THEN <<"N", "o", "n", "e">> ELSE t

\* AlpacaAdapter.submit_order: the ValueError raised before the API call, "" when the
\* API is called
AdapterInputError(order) ==
    IF \/ StrTicker(order.ticker) = << >>
       \/ Lower(order.side) \notin {"buy", "sell"}
       \/ order.quantity <= 0
    THEN "Invalid order payload for Alpaca"
    ELSE IF order.type = "limit" /\ (order.limit_price = NoLimit \/ order.limit_price[1] <= 0)
    THEN "Limit orders require a positive limit_price"
    ELSE ""

\* AlpacaAdapter.submit_order: the checks before the API call, then the broker's answer
AdapterSubmit(order, outcome, oid) ==
    IF AdapterInputError(order) # ""
    THEN [ok |-> FALSE, err |-> AdapterInputError(order), order_id |-> 0, status |-> None]
    ELSE IF outcome = "rejected"
    THEN [ok |-> FALSE, err |-> "rejected", order_id |-> 0, status |-> None]
    ELSE IF outcome = "empty"
    THEN [ok |-> TRUE, err |-> "", order_id |-> 0, status |-> None]
    ELSE [ok |-> TRUE, err |-> "", order_id |-> oid, status |-> outcome]

\* _submit_one: MOO is sent as a market order, anything else as a limit order;
\* float(None) raises TypeError
SubmitOne(o, outcome, oid) ==
    IF o.order_type = "MOO"
    THEN AdapterSubmit([ticker |-> o.ticker, side |-> o.side, quantity |-> o.quantity,
                        type |-> "market", time_in_force |-> "opg",
                        limit_price |-> NoLimit], outcome, oid)
    ELSE IF o.limit_price = NoLimit
    THEN [ok |-> FALSE, err |-> "float() argument must be a string or a real number",
          order_id |-> 0, status |-> None]
    ELSE AdapterSubmit([ticker |-> o.ticker, side |-> o.side, quantity |-> o.quantity,
                        type |-> "limit", time_in_force |-> "opg",
                        limit_price |-> FloatOrNone(o.limit_price)], outcome, oid)

----------------------------------------------------------------------------
\* Execution Engine (main of executor_morning.py).

\* the US/Eastern times of day at which a cycle is started
Times == {<<9, 28>>, <<9, 29>>, <<18, 59>>, <<19, 0>>}

\* mutant of IsOpgWindow: the minute of the 9 o'clock hour is not tested
IsOpgWindowWholeHour(h, m) ==
    LET evening_ok == h >= 19
        morning_ok == h <= 9
    IN evening_ok \/ morning_ok

\* _is_opg_window_now, for now_et = h:m
IsOpgWindow(h, m) ==
    LET evening_ok == h >= 19
        morning_ok == h < 9 \/ (h = 9 /\ m <= 28)
    IN evening_ok \/ morning_ok

\* the messages of the exceptions _submit_one raises in the model
SubmitErrors ==
    {"Invalid order payload for Alpaca", "Limit orders require a positive limit_price",
     "rejected", "float() argument must be a string or a real number"}

\* f"error: {e}"
ErrorStatuses == {"error: " \o e : e \in SubmitErrors}

\* mutant of SkipsSubmit: an order whose submission failed is skipped as well
SkipsSubmitAlsoErrors(status) ==
    \/ NormStatus(status) \in {"accepted", "new", "submitted", "filled", "cancelled", "canceled"}
    \/ status \in ErrorStatuses

\* mutant of SkipsSubmit: "accepted" is missing from the skip set
SkipsSubmitWithoutAccepted(status) ==
    NormStatus(status) \in {"new", "submitted", "filled", "cancelled", "canceled"}

\* the submission loop skips this status
SkipsSubmit(status) ==
    NormStatus(status) \in {"accepted", "new", "submitted", "filled", "cancelled", "canceled"}

\* mutant of PollTerminal: every status the broker reports is copied
PollTerminalAnyStatus(status) == Lower(status) \in {"new", "filled", "canceled", "cancelled"}

\* the poll loop copies this broker status into the order
PollTerminal(status) == Lower(status) \in {"filled", "canceled", "cancelled"}

\* orders of q the submission loop will pass to the adapter
Eligible(q) == {i \in DOMAIN q : ~SkipsSubmit(q[i].status)}

\* the cycle starts: set_data_dir, load_latest_portfolio_state
ExecStartStep ==
    /\ ex_pc = "idle"
    /\ runs < MaxRuns
    /\ runs' = runs + 1
    /\ \E t \in Times : ex_time' = t
    /\ ex_pc' = "gate"
    /\ UNCHANGED <<disk, recvars, queue, ex_i, known_ids, ex_polls, ex_result, next_oid,
                   histvars, covars, wrvars, fnvars>>

\* a cycle is started while no reconciliation is running
ExecStart ==
    /\ rec_pc = "idle"
    /\ ExecStartStep

\* a cycle is started while a reconciliation is running
ExecStartOverlapping ==
    /\ rec_pc # "idle"
    /\ ExecStartStep

\* the window guard, then _read_queue and the empty-queue return
ExecGateOn(read) ==
    /\ ex_pc = "gate"
    /\ ex_time' = << >>
    /\ IF ~IsOpgWindow(ex_time[1], ex_time[2])
       THEN /\ ex_pc' = "done"
            /\ ex_result' = "outside_window"
            /\ UNCHANGED queue
       ELSE IF read = << >>
       THEN /\ ex_pc' = "done"
            /\ ex_result' = "no_orders"
            /\ UNCHANGED queue
       ELSE /\ ex_pc' = "submit"
            /\ queue' = read
            /\ UNCHANGED ex_result
    /\ ex_i' = 1
    /\ UNCHANGED <<disk, recvars, known_ids, ex_polls, next_oid, histvars, runs, covars, wrvars, fnvars>>

\* the gate of the sequential model: the queue document is the list on disk
ExecGate == ExecGateOn(disk)

\* the gate on the queue file as it is found
ExecGateFile == ExecGateOn(ReadQueue(fs[QueuePath]))

\* mutant of SubmitStep: the status of the response is stored as it came, a missing
\* one included
SubmitStepRawStatus(o, resp) ==
    IF resp.ok
    THEN [o EXCEPT !.order_id = resp.order_id, !.status = resp.status]
    ELSE [o EXCEPT !.status = "error: " \o resp.err]

\* mutant of SubmitStep: the exception is swallowed without recording the error
SubmitStepSilent(o, resp) ==
    IF resp.ok
    THEN [o EXCEPT !.order_id = resp.order_id,
                   !.status = IF resp.status = None THEN "submitted" ELSE resp.status]
    ELSE o

\* the body of `for o in queue` after the skip test: resp is what _submit_one returned
\* or raised
SubmitStep(o, resp) ==
    IF resp.ok
    THEN [o EXCEPT !.order_id = resp.order_id,
                   !.status = IF resp.status = None THEN "submitted" ELSE resp.status]
    ELSE [o EXCEPT !.status = "error: " \o resp.err]

\* one iteration of `for o in queue` of the submission pass, the broker answering
\* with one of outcomes
ExecSubmitOn(outcomes) ==
    /\ ex_pc = "submit"
    /\ ex_i <= Len(queue)
    /\ LET o == queue[ex_i]
       IN IF SkipsSubmit(o.status)
          THEN UNCHANGED <<queue, calls, next_oid, applied_count>>
          ELSE \E outcome \in outcomes :
                  LET resp == SubmitOne(o, outcome, next_oid)
                      issued == resp.ok /\ resp.order_id # 0
                  IN /\ queue' = [queue EXCEPT ![ex_i] = SubmitStep(o, resp)]
                     /\ calls' = Append(calls, [i |-> ex_i, o |-> o, resp |-> resp])
                     /\ next_oid' = IF issued THEN next_oid + 1 ELSE next_oid
                     /\ applied_count' = IF issued THEN Append(applied_count, 0)
                                         ELSE applied_count
    /\ ex_i' = ex_i + 1
    /\ UNCHANGED <<disk, recvars, ex_pc, ex_time, known_ids, ex_polls, ex_result,
                   ex_applied, ex_reported, runs, covars, wrvars, fnvars>>

\* the submission pass with a broker whose responses all carry an id
ExecSubmit == ExecSubmitOn(SubmitOutcomes)

\* the submission pass with a broker whose response may lack the id
ExecSubmitAnyResponse == ExecSubmitOn(AnyResponseOutcomes)

\* _write_queue(queue) after the loop; end_time and known_ids of the poll loop
ExecWriteSubmitted ==
    /\ ex_pc = "submit"
    /\ ex_i > Len(queue)
    /\ disk' = queue
    /\ known_ids' = {queue[i].order_id : i \in {j \in DOMAIN queue : queue[j].order_id # 0}}
    /\ ex_polls' = 0
    /\ ex_pc' = "poll"
    /\ UNCHANGED <<recvars, ex_time, queue, ex_i, ex_result, next_oid, histvars, runs, covars, wrvars, fnvars>>

\* mutant of PollUpdate: an order the broker's list does not hold is marked cancelled
PollUpdateUnlistedCancelled(q, by_id) ==
    [i \in DOMAIN q |->
        IF q[i].order_id = 0 THEN q[i]
        ELSE IF by_id[q[i].order_id] = "absent" THEN [q[i] EXCEPT !.status = "cancelled"]
        ELSE IF PollTerminal(by_id[q[i].order_id])
        THEN [q[i] EXCEPT !.status = Lower(by_id[q[i].order_id])]
        ELSE q[i]]

\* mutant of PollUpdate: an order the broker reports as cancelled is taken off the queue
PollUpdateDroppingCancelled(q, by_id) ==
    LET kept(o) ==
            ~(o.order_id # 0 /\ by_id[o.order_id] \in {"canceled", "cancelled"})
    IN SelectSeq([i \in DOMAIN q |->
                     IF q[i].order_id # 0 /\ by_id[q[i].order_id] # "absent"
                        /\ PollTerminal(by_id[q[i].order_id])
                     THEN [q[i] EXCEPT !.status = Lower(by_id[q[i].order_id])]
                     ELSE q[i]], kept)

\* the for loop of one poll iteration, by_id given as a function of the order id
PollUpdate(q, by_id) ==
    [i \in DOMAIN q |->
        IF q[i].order_id # 0 /\ by_id[q[i].order_id] # "absent"
           /\ PollTerminal(by_id[q[i].order_id])
        THEN [q[i] EXCEPT !.status = Lower(by_id[q[i].order_id])]
        ELSE q[i]]

\* all_filled at the end of the iteration
AllFilled(q, by_id) ==
    \A i \in DOMAIN q :
        q[i].order_id # 0 =>
            by_id[q[i].order_id] # "absent" /\ PollTerminal(by_id[q[i].order_id])

\* one iteration of the while loop after list_orders returned: the queue it holds, the
\* document _write_queue leaves, and whether it breaks
PollIteration(q, by_id) ==
    [queue |-> PollUpdate(q, by_id),
     disk |-> PollUpdate(q, by_id),
     stop |-> AllFilled(q, by_id)]

\* the while condition is false: the timeout has passed, or known_ids is empty
ExecPollExit ==
    /\ ex_pc = "poll"
    /\ ex_pc' = "settle"
    /\ UNCHANGED <<disk, recvars, ex_time, queue, ex_i, known_ids, ex_polls, ex_result,
                   next_oid, histvars, runs, covars, wrvars, fnvars>>

\* one iteration: sleep, list_orders, update, _write_queue, break when all_filled
ExecPoll ==
    /\ ex_pc = "poll"
    /\ known_ids # {}
    /\ ex_polls < MaxPolls
    /\ \E by_id \in [known_ids -> PollInfos] :
          /\ queue' = PollIteration(queue, by_id).queue
          /\ disk' = PollIteration(queue, by_id).disk
          /\ ex_pc' = IF PollIteration(queue, by_id).stop THEN "settle" ELSE "poll"
          /\ ex_reported' = ex_reported
                \cup {id \in known_ids :
                        /\ \E k \in DOMAIN calls : calls[k].resp.order_id = id
                        /\ by_id[id] \in {"filled", "canceled", "cancelled"}}
    /\ ex_polls' = ex_polls + 1
    /\ UNCHANGED <<recvars, ex_time, ex_i, known_ids, ex_result, next_oid, calls, ex_applied,
                   applied_count, runs, covars, wrvars, fnvars>>

\* adapter.list_orders raises: nothing in main catches it
ExecPollRaise ==
    /\ ex_pc = "poll"
    /\ known_ids # {}
    /\ ex_polls < MaxPolls
    /\ ex_pc' = "done"
    /\ ex_result' = "unhandled_exception"
    /\ UNCHANGED <<disk, recvars, ex_time, queue, ex_i, known_ids, ex_polls, next_oid,
                   histvars, runs, covars, wrvars, fnvars>>

\* mutant of Settles: the quantity of a filled order is not looked at
SettlesAnyQuantity(o) ==
    (IF o.status = None THEN "" ELSE Lower(o.status)) = "filled"

\* the settlement loop applies this order
Settles(o) ==
    (IF o.status = None THEN "" ELSE Lower(o.status)) = "filled" /\ o.quantity > 0

\* the call the settlement loop makes for o
Application(o) ==
    LET px == IF o.limit_price = NoLimit THEN 0 ELSE o.limit_price[1]
    IN [op |-> IF o.side = "buy" THEN "log_manual_buy" ELSE "log_manual_sell",
        price |-> IF px > 0 THEN px ELSE 0,
        shares |-> o.quantity,
        ticker |-> o.ticker,
        order_id |-> o.order_id]

\* the calls of the settlement loop over q, in the order they are made
SettleApplications(q) ==
    LET settled == SelectSeq(q, Settles)
    IN [k \in DOMAIN settled |-> Application(settled[k])]

\* the settlement loop over queue
ExecSettle ==
    /\ ex_pc = "settle"
    /\ LET settled == SelectSeq(queue, Settles)
       IN /\ ex_applied' = SettleApplications(queue)
          /\ applied_count' =
                [id \in DOMAIN applied_count |->
                    LET n == Cardinality({k \in DOMAIN settled : settled[k].order_id = id})
                    IN IF applied_count[id] + n >= 2 THEN 2 ELSE applied_count[id] + n]
    /\ ex_pc' = "done"
    /\ ex_result' = "complete"
    /\ UNCHANGED <<disk, recvars, ex_time, queue, ex_i, known_ids, ex_polls, next_oid,
                   calls, ex_reported, runs, covars, wrvars, fnvars>>

\* the process exits
ExecFinish ==
    /\ ex_pc = "done"
    /\ ex_pc' = "idle"
    /\ queue' = << >>
    /\ ex_i' = 1
    /\ known_ids' = {}
    /\ ex_polls' = 0
    /\ ex_result' = "none"
    /\ calls' = << >>
    /\ ex_applied' = << >>
    /\ ex_reported' = {}
    /\ UNCHANGED <<disk, recvars, ex_time, next_oid, applied_count, runs, covars, wrvars, fnvars>>

----------------------------------------------------------------------------
\* The system: reconciliations and executor cycles that do not overlap.

SysInit ==
    /\ disk = << >>
    /\ rec_pc = "idle"
    /\ rec_json = NoPayload
    /\ rec_new = << >>
    /\ rec_existing = << >>
    /\ rec_result = "none"
    /\ ex_pc = "idle"
    /\ ex_time = << >>
    /\ queue = << >>
    /\ ex_i = 1
    /\ known_ids = {}
    /\ ex_polls = 0
    /\ ex_result = "none"
    /\ next_oid = 1
    /\ calls = << >>
    /\ ex_applied = << >>
    /\ applied_count = << >>
    /\ ex_reported = {}
    /\ runs = 0

\* no queue write is followed step by step
WrOff ==
    /\ fs = [p \in {QueuePath, TmpOf(QueuePath)} |-> FileAbsent]
    /\ wr_pc = "off"
    /\ wr_data = << >>
    /\ wr_old = FileAbsent

\* no single call is followed by the function harness
FnOff ==
    /\ fn_pc = "off"
    /\ fn_in = << >>
    /\ fn_out = << >>

\* the coalescer harness is not running
CoOff ==
    /\ co_pc = "off"
    /\ co_in = << >>
    /\ co_out = << >>
    /\ co_out2 = << >>

Init ==
    /\ SysInit
    /\ co_pc = "off"
    /\ co_in = << >>
    /\ co_out = << >>
    /\ co_out2 = << >>
    /\ WrOff
    /\ FnOff

Next ==
    \/ RecLoad
    \/ RecWrite
    \/ RecFinish
    \/ ExecStart
    \/ ExecGate
    \/ ExecSubmit
    \/ ExecWriteSubmitted
    \/ ExecPollExit
    \/ ExecPoll
    \/ ExecPollRaise
    \/ ExecSettle
    \/ ExecFinish

Spec == Init /\ [][Next]_vars

\* a step of a running executor process
ExecRuns ==
    \/ ExecGate
    \/ ExecSubmit
    \/ ExecWriteSubmitted
    \/ ExecPollExit
    \/ ExecPoll
    \/ ExecPollRaise
    \/ ExecSettle

\* the new_orders of the payloads that pass validation
ValidNewOrders ==
    {NormalizeOrders(p, c).orders :
        p \in {q \in Payloads : \A c \in CashValues : NormalizeOrders(q, c).ok},
        c \in CashValues}

\* the queue documents one reconciliation writes, starting from an empty queue
FirstQueues == {Merged(<< >>, n) : n \in ValidNewOrders}

\* the queue documents two reconciliations write, starting from an empty queue
ReconciledQueues == {Merged(q, n) : q \in FirstQueues, n \in ValidNewOrders}

\* one executor cycle, the last invocation of the behaviour, on a queue the Reconciler
\* wrote
CycleInit ==
    /\ disk \in ReconciledQueues
    /\ rec_pc = "idle"
    /\ rec_json = NoPayload
    /\ rec_new = << >>
    /\ rec_existing = << >>
    /\ rec_result = "none"
    /\ ex_pc = "idle"
    /\ ex_time = << >>
    /\ queue = << >>
    /\ ex_i = 1
    /\ known_ids = {}
    /\ ex_polls = 0
    /\ ex_result = "none"
    /\ next_oid = 1
    /\ calls = << >>
    /\ ex_applied = << >>
    /\ applied_count = << >>
    /\ ex_reported = {}
    /\ runs = MaxRuns - 1
    /\ co_pc = "off"
    /\ co_in = << >>
    /\ co_out = << >>
    /\ co_out2 = << >>
    /\ WrOff
    /\ FnOff

CycleNext ==
    \/ ExecStart
    \/ ExecGate
    \/ ExecSubmit
    \/ ExecWriteSubmitted
    \/ ExecPollExit
    \/ ExecPoll
    \/ ExecPollRaise
    \/ ExecSettle
    \/ ExecFinish

\* the executor is one sequential process: once started, it goes on to its next
\* statement; each poll iteration sleeps 10 s of the 10 minutes, so the iterations
\* are bounded
SpecCycle == CycleInit /\ [][CycleNext]_vars /\ WF_vars(ExecRuns)

----------------------------------------------------------------------------
\* Overlapping invocations: the last two invocations of the behaviour on a queue the
\* Reconciler wrote, each free to start while the other runs. Nothing in the code
\* (no lock, no check of the file before the write) keeps them apart.

OverlapInit ==
    /\ disk \in FirstQueues
    /\ rec_pc = "idle"
    /\ rec_json = NoPayload
    /\ rec_new = << >>
    /\ rec_existing = << >>
    /\ rec_result = "none"
    /\ ex_pc = "idle"
    /\ ex_time = << >>
    /\ queue = << >>
    /\ ex_i = 1
    /\ known_ids = {}
    /\ ex_polls = 0
    /\ ex_result = "none"
    /\ next_oid = 1
    /\ calls = << >>
    /\ ex_applied = << >>
    /\ applied_count = << >>
    /\ ex_reported = {}
    /\ runs = MaxRuns - 2
    /\ co_pc = "off"
    /\ co_in = << >>
    /\ co_out = << >>
    /\ co_out2 = << >>
    /\ WrOff
    /\ FnOff

OverlapNext ==
    \/ Next
    \/ RecLoadOverlapping
    \/ ExecStartOverlapping

SpecOverlap == OverlapInit /\ [][OverlapNext]_vars

----------------------------------------------------------------------------
\* The Coalescer alone: _coalesce_pending applied to a list of queue items, then to
\* its own output.

SeqsUpTo(S, n) == UNION {[1..k -> S] : k \in 0..n}

\* items without an order_id as they may stand in the queue document or come from
\* the Normalizer, hand-edited ones included
CoItems ==
    { [id |-> <<"sha256">>, ticker |-> t, side |-> sd, quantity |-> q,
       order_type |-> tl[1], limit_price |-> tl[2], validity |-> "next_open",
       rationale |-> r, status |-> None, order_id |-> 0] :
         t \in {<<"a">>, <<"A">>}, sd \in {"buy", "Sell"}, q \in {-1, 0, 1},
         tl \in {<<"moo", NoLimit>>, <<"MOO", <<0>>>>, <<"LOO", <<10>>>>},
         r \in {None} }

CoInit ==
    /\ SysInit
    /\ co_pc = "in"
    /\ co_in \in SeqsUpTo(CoItems, MaxItems)
    /\ co_out = << >>
    /\ co_out2 = << >>
    /\ WrOff
    /\ FnOff

CoApply ==
    /\ co_pc = "in"
    /\ co_out' = CoalescePending(co_in)
    /\ co_pc' = "once"
    /\ UNCHANGED <<sysvars, co_in, co_out2, wrvars, fnvars>>

CoReapply ==
    /\ co_pc = "once"
    /\ co_out2' = CoalescePending(co_out)
    /\ co_pc' = "twice"
    /\ UNCHANGED <<sysvars, co_in, co_out, wrvars, fnvars>>

CoNext ==
    \/ CoApply
    \/ CoReapply

SpecCoalesce == CoInit /\ [][CoNext]_vars

----------------------------------------------------------------------------
\* The queue write alone: _write_json / _write_queue step by step, by processes that
\* may stop at any step; a write begins when the previous writer has returned or
\* stopped.

\* the queue file is missing or holds a document the Reconciler wrote; no temporary
\* file is left
WrInit ==
    /\ SysInit
    /\ co_pc = "off"
    /\ co_in = << >>
    /\ co_out = << >>
    /\ co_out2 = << >>
    /\ \E f \in {FileAbsent} \cup {FileOf(JsonDump(d)) : d \in ReconciledQueues} :
          /\ fs = [p \in {QueuePath, TmpOf(QueuePath)} |->
                      IF p = QueuePath THEN f ELSE FileAbsent]
          /\ wr_old = f
    /\ wr_pc = "idle"
    /\ wr_data = << >>
    /\ FnOff

\* _write_json(path, data) is called
WrCall ==
    /\ wr_pc = "idle"
    /\ wr_data' \in ReconciledQueues
    /\ wr_old' = fs[QueuePath]
    /\ wr_pc' = "open"
    /\ UNCHANGED <<sysvars, covars, fnvars, fs>>

\* tmp.open("w"): the temporary file is created, or truncated
WrOpen ==
    /\ wr_pc = "open"
    /\ fs' = [fs EXCEPT ![TmpOf(QueuePath)] = FileOf(<< >>)]
    /\ wr_pc' = "dump"
    /\ UNCHANGED <<sysvars, covars, fnvars, wr_data, wr_old>>

\* json.dump: the next piece of the text reaches the temporary file
WrDump ==
    /\ wr_pc = "dump"
    /\ LET tmp == TmpOf(QueuePath)
           text == JsonDump(wr_data)
           n == Len(fs[tmp].content)
       IN /\ n < Len(text)
          /\ fs' = [fs EXCEPT ![tmp] = FileOf(Append(fs[tmp].content, text[n + 1]))]
    /\ UNCHANGED <<sysvars, covars, fnvars, wr_pc, wr_data, wr_old>>

\* the with block ends: the whole text is in the temporary file, which is closed
WrClose ==
    /\ wr_pc = "dump"
    /\ Len(fs[TmpOf(QueuePath)].content) = Len(JsonDump(wr_data))
    /\ wr_pc' = "replace"
    /\ UNCHANGED <<sysvars, covars, fnvars, fs, wr_data, wr_old>>

\* os.replace(tmp, path): one atomic rename; the call returns
WrReplace ==
    /\ wr_pc = "replace"
    /\ LET tmp == TmpOf(QueuePath)
       IN fs' = [p \in DOMAIN fs |->
                    IF p = QueuePath THEN fs[tmp]
                    ELSE IF p = tmp THEN FileAbsent
                    ELSE fs[p]]
    /\ wr_pc' = "idle"
    /\ UNCHANGED <<sysvars, covars, fnvars, wr_data, wr_old>>

\* the writing process stops where it is
WrCrash ==
    /\ wr_pc \in {"open", "dump", "replace"}
    /\ wr_pc' = "idle"
    /\ UNCHANGED <<sysvars, covars, fnvars, fs, wr_data, wr_old>>

WrNext ==
    \/ WrCall
    \/ WrOpen
    \/ WrDump
    \/ WrClose
    \/ WrReplace
    \/ WrCrash

SpecWrite == WrInit /\ [][WrNext]_vars

----------------------------------------------------------------------------
\* Two invocations writing the queue at overlapping times: both use the one temporary
\* path, and an open file follows its file through a rename.

\* the two writing processes
Writers == {1, 2}

\* a writer that is not writing: no open file
WriterIdle == [pc |-> "idle", at |-> "none", off |-> 0]

\* the zero bytes a write past the end of a file leaves before it
Holes(n) == [i \in 1..n |-> [t |-> "hole"]]

\* the content of a file after piece is written at offset off
WriteAt(content, off, piece) ==
    IF off < Len(content) THEN [content EXCEPT ![off + 1] = piece]
    ELSE content \o Holes(off - Len(content)) \o <<piece>>

TwoInit ==
    /\ SysInit
    /\ CoOff
    /\ FnOff
    /\ \E f \in {FileAbsent} \cup {FileOf(JsonDump(d)) : d \in FirstQueues} :
          /\ fs = [p \in {QueuePath, TmpOf(QueuePath)} |->
                      IF p = QueuePath THEN f ELSE FileAbsent]
          /\ wr_old = f
    /\ wr_pc = [w \in Writers |-> WriterIdle]
    /\ wr_data = [w \in Writers |-> << >>]

\* _write_json(path, data) or _write_queue(data) is called by w
TwoCall(w) ==
    /\ wr_pc[w].pc = "idle"
    /\ \E d \in FirstQueues : wr_data' = [wr_data EXCEPT ![w] = d]
    /\ wr_pc' = [wr_pc EXCEPT ![w].pc = "open"]
    /\ UNCHANGED <<sysvars, covars, fnvars, fs, wr_old>>

\* tmp.open("w"): the temporary file is created, or the one that is there is truncated
TwoOpen(w) ==
    /\ wr_pc[w].pc = "open"
    /\ fs' = [fs EXCEPT ![TmpOf(QueuePath)] = FileOf(<< >>)]
    /\ wr_pc' = [wr_pc EXCEPT ![w] = [pc |-> "dump", at |-> TmpOf(QueuePath), off |-> 0]]
    /\ UNCHANGED <<sysvars, covars, fnvars, wr_data, wr_old>>

\* json.dump: the next piece of the text is written at w's offset into the file w has
\* open, wherever that file now is
TwoDump(w) ==
    /\ wr_pc[w].pc = "dump"
    /\ LET text == JsonDump(wr_data[w])
           off == wr_pc[w].off
           at == wr_pc[w].at
       IN /\ off < Len(text)
          /\ fs' = IF at = "unlinked" THEN fs
                   ELSE [fs EXCEPT ![at] = FileOf(WriteAt(fs[at].content, off, text[off + 1]))]
          /\ wr_pc' = [wr_pc EXCEPT ![w].off = off + 1]
    /\ UNCHANGED <<sysvars, covars, fnvars, wr_data, wr_old>>

\* the with block ends: w has written its whole text and closes the file
TwoClose(w) ==
    /\ wr_pc[w].pc = "dump"
    /\ wr_pc[w].off = Len(JsonDump(wr_data[w]))
    /\ wr_pc' = [wr_pc EXCEPT ![w] = [pc |-> "replace", at |-> "none", off |-> 0]]
    /\ UNCHANGED <<sysvars, covars, fnvars, fs, wr_data, wr_old>>

\* os.replace(tmp, path): the file at the temporary path takes the queue path, and a
\* file the other writer has open goes with it; FileNotFoundError when the temporary
\* path holds no file
TwoReplace(w) ==
    /\ wr_pc[w].pc = "replace"
    /\ LET tmp == TmpOf(QueuePath)
       IN IF fs[tmp].exists
          THEN /\ fs' = [p \in DOMAIN fs |-> IF p = QueuePath THEN fs[tmp] ELSE FileAbsent]
               /\ wr_pc' = [v \in Writers |->
                               IF v = w THEN [wr_pc[v] EXCEPT !.pc = "done"]
                               ELSE IF wr_pc[v].at = tmp THEN [wr_pc[v] EXCEPT !.at = QueuePath]
                               ELSE IF wr_pc[v].at = QueuePath
                               THEN [wr_pc[v] EXCEPT !.at = "unlinked"]
                               ELSE wr_pc[v]]
          ELSE /\ wr_pc' = [wr_pc EXCEPT ![w].pc = "raised"]
               /\ UNCHANGED fs
    /\ UNCHANGED <<sysvars, covars, fnvars, wr_data, wr_old>>

TwoNext ==
    \E w \in Writers :
        \/ TwoCall(w)
        \/ TwoOpen(w)
        \/ TwoDump(w)
        \/ TwoClose(w)
        \/ TwoReplace(w)

SpecTwoWriters == TwoInit /\ [][TwoNext]_vars

----------------------------------------------------------------------------
\* Reading the queue file: the start of a reconciliation and of an executor cycle on
\* whatever orders_queue.json holds.

\* the first k pieces of a text, for every k short of the whole
Truncations(text) == {SubSeq(text, 1, k) : k \in 0..(Len(text) - 1)}

\* queue files that hold no list: missing, cut short, a JSON object, null
NoListFiles ==
    {FileAbsent}
        \cup {FileOf(t) : t \in UNION {Truncations(JsonDump(d)) : d \in FirstQueues}}
        \cup {FileOf(JsonObject(d)) : d \in FirstQueues}
        \cup {FileOf(JsonNull)}

\* queue files that hold a list
ListFiles == {FileOf(JsonDump(d)) : d \in FirstQueues}

ReadInit ==
    /\ SysInit
    /\ CoOff
    /\ FnOff
    /\ \E f \in NoListFiles \cup ListFiles :
          fs = [p \in {QueuePath, TmpOf(QueuePath)} |->
                   IF p = QueuePath THEN f ELSE FileAbsent]
    /\ wr_pc = "off"
    /\ wr_data = << >>
    /\ wr_old = FileAbsent

ReadNext ==
    \/ RecLoadFile
    \/ RecFinish
    \/ ExecStart
    \/ ExecGateFile
    \/ ExecFinish

SpecRead == ReadInit /\ [][ReadNext]_vars

----------------------------------------------------------------------------
\* The Intent Normalizer alone: one call of _normalize_orders(model_json, portfolio_cash).

\* length of the tickers the decision source writes
MaxTickerLen == 2

\* what the decision source may write for a ticker: letters of either case, a digit,
\* a dot, a blank
NzTickers == SeqsUpTo({"a", "B", "1", ".", " "}, MaxTickerLen)

\* quantity and percent of an intent: an explicit quantity (an int, or the floats 3/2
\* and 1/2), a percent in hundredths, both, or neither
NzSizes ==
    {[quantity |-> q, percent |-> << >>] : q \in {<<-1>>, <<0>>, <<1>>, <<3, 2>>, <<1, 2>>}}
        \cup {[quantity |-> << >>, percent |-> p] :
                  p \in {<< >>, <<-50>>, <<0>>, <<50>>, <<150>>}}
        \cup {[quantity |-> <<2>>, percent |-> <<150>>]}

NzTypes == {"moo", "LOO", "loo", "GTC"}

\* limit_price of an intent: absent, the ints 0 and 10, the float 10.0
NzLimits == {NoLimit, <<0>>, <<10>>, <<10, 1>>}

NzItems ==
    {[ticker |-> t, quantity |-> sz.quantity, percent |-> sz.percent,
      order_type |-> ty, limit_price |-> lp] :
        t \in NzTickers, sz \in NzSizes, ty \in NzTypes, lp \in NzLimits}

\* intents that differ in spelling only
NzTwinItems ==
    {[ticker |-> t, quantity |-> q, percent |-> << >>, order_type |-> ty, limit_price |-> lp] :
        t \in {<<"a">>, <<"A">>}, q \in {<<1>>, <<3, 2>>}, ty \in {"moo", "MOO", "LOO"},
        lp \in {NoLimit, <<10>>, <<10, 1>>}}

\* portfolio_cash
NzCash == {1, 100}

\* payloads of one intent to buy or to sell, and buy lists of two intents
NzPayloads ==
    {[buy |-> <<it>>, sell |-> << >>] : it \in NzItems}
        \cup {[buy |-> << >>, sell |-> <<it>>] : it \in NzTwinItems}
        \cup {[buy |-> <<a, b>>, sell |-> << >>] : a \in NzTwinItems, b \in NzTwinItems}

NormInit ==
    /\ SysInit
    /\ CoOff
    /\ WrOff
    /\ fn_pc = "in"
    /\ fn_in \in {[model_json |-> p, portfolio_cash |-> c] : p \in NzPayloads, c \in NzCash}
    /\ fn_out = << >>

\* new_orders = _normalize_orders(model_json, portfolio_cash)
NormCall ==
    /\ fn_pc = "in"
    /\ fn_pc' = "out"
    /\ fn_out' = NormalizeOrders(fn_in.model_json, fn_in.portfolio_cash)
    /\ UNCHANGED <<sysvars, covars, wrvars, fn_in>>

NormNext == NormCall

SpecNormalize == NormInit /\ [][NormNext]_vars

----------------------------------------------------------------------------
\* The broker adapter alone: one call of AlpacaAdapter.submit_order(order).

\* the dicts submit_order may be handed
AdOrders ==
    {[ticker |-> t, side |-> sd, quantity |-> q, type |-> ty, time_in_force |-> "opg",
      limit_price |-> lp] :
        t \in {NoTicker, << >>, <<"A">>}, sd \in {"buy", "sell", "BUY", "hold", None},
        q \in {-1, 0, 1}, ty \in {"market", "limit"}, lp \in {NoLimit, <<0>>, <<10>>}}

AdInit ==
    /\ SysInit
    /\ CoOff
    /\ WrOff
    /\ fn_pc = "in"
    /\ fn_in \in {[order |-> o, outcome |-> oc] : o \in AdOrders, oc \in SubmitOutcomes}
    /\ fn_out = << >>

\* adapter.submit_order(order): api tells whether self._api.submit_order was called
AdCall ==
    /\ fn_pc = "in"
    /\ fn_pc' = "out"
    /\ fn_out' = [api |-> AdapterInputError(fn_in.order) = "",
                  resp |-> AdapterSubmit(fn_in.order, fn_in.outcome, 1)]
    /\ UNCHANGED <<sysvars, covars, wrvars, fn_in>>

AdNext == AdCall

SpecAdapter == AdInit /\ [][AdNext]_vars

----------------------------------------------------------------------------
\* One iteration of the poll loop alone, on any queue and any answer of list_orders.

\* orders as the poll loop may find them in its queue
PollOrders ==
    {[id |-> <<"sha256">>, ticker |-> <<"A">>, side |-> "buy", quantity |-> 1,
      order_type |-> "MOO", limit_price |-> NoLimit, validity |-> "next_open",
      rationale |-> "LLM decision", status |-> st, order_id |-> oid] :
        st \in {None, "submitted", "filled", "error: rejected"}, oid \in {0, 1, 2}}

PollInit ==
    /\ SysInit
    /\ CoOff
    /\ WrOff
    /\ fn_pc = "in"
    /\ fn_in \in {[queue |-> q, by_id |-> b] :
                     q \in SeqsUpTo(PollOrders, MaxItems), b \in [{1, 2} -> PollInfos]}
    /\ fn_out = << >>

\* the body of the while loop from by_id on
PollCall ==
    /\ fn_pc = "in"
    /\ fn_pc' = "out"
    /\ fn_out' = PollIteration(fn_in.queue, fn_in.by_id)
    /\ UNCHANGED <<sysvars, covars, wrvars, fn_in>>

PollNext == PollCall

SpecPoll == PollInit /\ [][PollNext]_vars

----------------------------------------------------------------------------
\* The settlement pass alone, on any queue the poll loop may leave.

\* orders as the settlement pass may find them: filled or not, bought or sold, with a
\* quantity of 0 or 1, without a limit price or with one of 0 or 10
SettleOrders ==
    {[id |-> <<"sha256">>, ticker |-> <<"A">>, side |-> sd, quantity |-> q,
      order_type |-> IF lp = <<10>> THEN "LOO" ELSE "MOO", limit_price |-> lp,
      validity |-> "next_open", rationale |-> "LLM decision", status |-> st,
      order_id |-> 1] :
        st \in {"filled", "submitted"}, sd \in {"buy", "sell"}, q \in {0, 1},
        lp \in {NoLimit, <<0>>, <<10>>}}

SettleInit ==
    /\ SysInit
    /\ CoOff
    /\ WrOff
    /\ fn_pc = "in"
    /\ fn_in \in SeqsUpTo(SettleOrders, MaxItems)
    /\ fn_out = << >>

\* the for loop of the settlement pass
SettleCall ==
    /\ fn_pc = "in"
    /\ fn_pc' = "out"
    /\ fn_out' = SettleApplications(fn_in)
    /\ UNCHANGED <<sysvars, covars, wrvars, fn_in>>

SettleNext == SettleCall

SpecSettle == SettleInit /\ [][SettleNext]_vars

----------------------------------------------------------------------------
\* The submission-window gate alone, at times of day given to the second.

\* US/Eastern times of day <<hour, minute, second>> around the two ends of the window
GateTimes ==
    {<<h, m, s>> : h \in {0, 8, 9, 10, 18, 19, 23}, m \in {0, 27, 28, 29, 59},
                   s \in {0, 1, 59}}

GateInit ==
    /\ SysInit
    /\ CoOff
    /\ WrOff
    /\ fn_pc = "in"
    /\ fn_in \in GateTimes
    /\ fn_out = << >>

\* _is_opg_window_now with now_et = fn_in: hour and minute are read, the second is not
GateCall ==
    /\ fn_pc = "in"
    /\ fn_pc' = "out"
    /\ fn_out' = IsOpgWindow(fn_in[1], fn_in[2])
    /\ UNCHANGED <<sysvars, covars, wrvars, fn_in>>

GateNext == GateCall

SpecGate == GateInit /\ [][GateNext]_vars

\* Three invocations on an empty queue, with decision payloads of every size and type,
\* and the --dry-run mode of the Reconciler.

\* quantity and percent of an intent of these payloads
DaySizes ==
    {[quantity |-> q, percent |-> << >>] : q \in {<<-1>>, <<0>>, <<1>>, <<1, 2>>, <<3, 2>>}}
        \cup {[quantity |-> << >>, percent |-> p] : p \in {<<0>>, <<150>>}}

DayItems ==
    {[ticker |-> <<"a">>, quantity |-> sz.quantity, percent |-> sz.percent,
      order_type |-> ty, limit_price |-> lp] :
        sz \in DaySizes, ty \in {"moo", "LOO"}, lp \in {NoLimit, <<0>>, <<10>>}}

\* payloads of one intent to buy
DayPayloads == {[buy |-> <<it>>, sell |-> << >>] : it \in DayItems}

\* a reconciliation on one of these payloads
RecLoadDay ==
    /\ ex_pc = "idle"
    /\ RecLoadOn(DayPayloads, disk)

\* mutant of RecDryRun: the payload is sent to the decision source before it is printed
RecDryRunCallingSource ==
    /\ rec_pc = "idle"
    /\ ex_pc = "idle"
    /\ runs < MaxRuns
    /\ runs' = runs + 1
    /\ rec_pc' = "done"
    /\ rec_result' = "dry_run"
    /\ \E model_json \in DayPayloads : rec_json' = model_json
    /\ UNCHANGED <<disk, rec_new, rec_existing, exvars, next_oid, histvars,
                   covars, wrvars, fnvars>>

\* --dry-run: the request payload is built from the portfolio state and printed, and
\* the process exits
RecDryRun ==
    /\ rec_pc = "idle"
    /\ ex_pc = "idle"
    /\ runs < MaxRuns
    /\ runs' = runs + 1
    /\ rec_pc' = "done"
    /\ rec_result' = "dry_run"
    /\ UNCHANGED <<disk, rec_json, rec_new, rec_existing, exvars, next_oid, histvars,
                   covars, wrvars, fnvars>>

DayInit ==
    /\ disk = << >>
    /\ rec_pc = "idle"
    /\ rec_json = NoPayload
    /\ rec_new = << >>
    /\ rec_existing = << >>
    /\ rec_result = "none"
    /\ ex_pc = "idle"
    /\ ex_time = << >>
    /\ queue = << >>
    /\ ex_i = 1
    /\ known_ids = {}
    /\ ex_polls = 0
    /\ ex_result = "none"
    /\ next_oid = 1
    /\ calls = << >>
    /\ ex_applied = << >>
    /\ applied_count = << >>
    /\ ex_reported = {}
    /\ runs = MaxRuns - 3
    /\ CoOff
    /\ WrOff
    /\ FnOff

DayNext ==
    \/ RecLoadDay
    \/ RecDryRun
    \/ RecWrite
    \/ RecFinish
    \/ ExecStart
    \/ ExecGate
    \/ ExecSubmit
    \/ ExecWriteSubmitted
    \/ ExecPollExit
    \/ ExecPoll
    \/ ExecPollRaise
    \/ ExecSettle
    \/ ExecFinish

SpecDay == DayInit /\ [][DayNext]_vars

----------------------------------------------------------------------------
\* Three invocations on an empty queue, with a broker whose response to a submission
\* may lack the id.

AnyResponseNext ==
    \/ RecLoad
    \/ RecWrite
    \/ RecFinish
    \/ ExecStart
    \/ ExecGate
    \/ ExecSubmitAnyResponse
    \/ ExecWriteSubmitted
    \/ ExecPollExit
    \/ ExecPoll
    \/ ExecPollRaise
    \/ ExecSettle
    \/ ExecFinish

SpecAnyResponse == DayInit /\ [][AnyResponseNext]_vars

----------------------------------------------------------------------------
\* Vocabulary of the properties.

\* the grouping key (ticker, side, order_type, limit_price) of a stored order
OrderKey(o) == <<o.ticker, o.side, o.order_type, o.limit_price>>

\* how many entries of q equal o
Occurrences(q, o) == Cardinality({j \in DOMAIN q : q[j] = o})

\* how many _submit_one calls of this cycle were made for queue index i
CallsFor(i) == Cardinality({k \in DOMAIN calls : calls[k].i = i})

\* the statuses the specification lists as not submitted again
ListedSkipStatuses == {"accepted", "new", "submitted", "filled", "cancelled"}

\* a reconciliation has just written the queue
RecWritten == rec_pc = "done" /\ rec_result = "written"

\* the specification's window: 19:00 <= t < 24:00 or 00:00 <= t <= 09:28
InsideWindow(t) == 60 * t[1] + t[2] >= 60 * 19 \/ 60 * t[1] + t[2] <= 60 * 9 + 28

\* sum of the quantities of the items of key k among the first n of items
RECURSIVE SumAll(_, _, _)
SumAll(items, k, n) ==
    IF n = 0 THEN 0
    ELSE SumAll(items, k, n - 1)
         + (IF BucketKey(items[n]) = k THEN items[n].quantity ELSE 0)

\* the same sum over the items with a quantity > 0
RECURSIVE SumPositive(_, _, _)
SumPositive(items, k, n) ==
    IF n = 0 THEN 0
    ELSE SumPositive(items, k, n - 1)
         + (IF BucketKey(items[n]) = k /\ items[n].quantity > 0 THEN items[n].quantity ELSE 0)

\* the output orders of key k
OutputsOf(out, k) == {j \in DOMAIN out : OrderKey(out[j]) = k}

----------------------------------------------------------------------------
\* C1: an order that already holds a broker order_id is never passed to submit_order
\* again, whatever status the broker returned for it at submission.
\* Violated: the skip test reads the status only, and a status such as pending_new
\* is not in its set.
C1_NeverResubmitted == \A k \in DOMAIN calls : calls[k].o.order_id = 0

\* C2 (as stated): within the submission pass, no call is made for an order whose
\* status is one of accepted, new, submitted, filled, cancelled, and exactly one call
\* is made for every other order.
C2_ListedStatusesOnly ==
    ex_pc = "submit" =>
        \A i \in 1..(ex_i - 1) :
            CallsFor(i) = IF NormStatus(disk[i].status) \in ListedSkipStatuses THEN 0 ELSE 1

\* C2 (amended): the same with canceled, the other spelling of cancelled, among the
\* statuses that are not submitted again.
C2_SkipsAcknowledgedOrFinal ==
    ex_pc = "submit" =>
        \A i \in 1..(ex_i - 1) :
            CallsFor(i) = IF NormStatus(disk[i].status) \in ListedSkipStatuses \cup {"canceled"}
                          THEN 0 ELSE 1

\* C2 witness: a pass has gone over an order the broker reported as canceled, and
\* made no call for it.
C2_Witness ==
    /\ ex_pc = "submit"
    /\ \E i \in 1..(ex_i - 1) : disk[i].status = "canceled" /\ CallsFor(i) = 0

\* C3 (as stated): every order of the loaded queue that has an order_id is in the
\* merged output exactly once, with every field unchanged.
C3_EveryOrderWithIdCarried ==
    RecWritten =>
        \A i \in DOMAIN rec_existing :
            rec_existing[i].order_id # 0 => Occurrences(disk, rec_existing[i]) = 1

\* C3 (amended): every order of the loaded queue that has an order_id and whose status
\* is not filled, cancelled or canceled is in the merged output exactly once, with
\* every field unchanged (so it was not coalesced).
C3_NonFinalOrderWithIdCarried ==
    RecWritten =>
        \A i \in DOMAIN rec_existing :
            (/\ rec_existing[i].order_id # 0
             /\ NormStatus(rec_existing[i].status) \notin {"filled", "cancelled", "canceled"})
            => Occurrences(disk, rec_existing[i]) = 1

\* C3 witness: a reconciliation has written the queue with a carried order and a new
\* intent of the same grouping key.
C3_Witness ==
    /\ RecWritten
    /\ \E i \in DOMAIN rec_existing, n \in DOMAIN rec_new :
          /\ rec_existing[i].order_id # 0
          /\ rec_existing[i].status = "accepted"
          /\ OrderKey(rec_existing[i]) = OrderKey(rec_new[n])
          /\ Occurrences(disk, rec_existing[i]) = 1

\* C4: after a reconciliation has written the queue, running it again with the same
\* new intents and no executor cycle in between leaves the queue as it is.
\* Violated: the new intents are summed into the pending orders once more.
C4_MergeIdempotent == RecWritten => Merged(disk, rec_new) = disk

\* C5: the Coalescer applied to its own output returns that output.
C5_CoalesceIdempotent == co_pc = "twice" => co_out2 = co_out

\* C5 witness: both applications are done on a list of which two items were merged.
C5_Witness ==
    /\ co_pc = "twice"
    /\ Len(co_in) = 2
    /\ Len(co_out) = 1
    /\ co_out[1].quantity = 2

\* C6: after a queue write of a reconciliation, no two orders without an order_id
\* share (ticker, side, order_type, limit_price).
C6_PendingKeysDistinct ==
    RecWritten =>
        \A i, j \in DOMAIN disk :
            (i < j /\ disk[i].order_id = 0 /\ disk[j].order_id = 0)
            => OrderKey(disk[i]) # OrderKey(disk[j])

\* C6 witness: the queue was written from a pending order and two new intents, all of
\* one key.
C6_Witness ==
    /\ RecWritten
    /\ Len(rec_new) = 2
    /\ OrderKey(rec_new[1]) = OrderKey(rec_new[2])
    /\ \E i \in DOMAIN rec_existing :
          rec_existing[i].order_id = 0 /\ OrderKey(rec_existing[i]) = OrderKey(rec_new[1])
    /\ \E j \in DOMAIN disk : disk[j].order_id = 0 /\ disk[j].quantity = 3

\* C7 (as stated): for each key the output has one order whose quantity is the sum of
\* the quantities of all input orders of that key, and none when that sum is <= 0.
C7_SumOfAllQuantities ==
    co_pc = "once" =>
        \A i \in DOMAIN co_in :
            LET k == BucketKey(co_in[i])
                total == SumAll(co_in, k, Len(co_in))
            IN IF total > 0
               THEN /\ Cardinality(OutputsOf(co_out, k)) = 1
                    /\ \A j \in OutputsOf(co_out, k) : co_out[j].quantity = total
               ELSE OutputsOf(co_out, k) = {}

\* C7 (amended): for each key the output has one order whose quantity is the sum of
\* the quantities of the input orders of that key that have a quantity > 0, and none
\* when no input order of the key has a quantity > 0; every output order has the key
\* of some input order.
C7_SumOfPositiveQuantities ==
    co_pc = "once" =>
        /\ \A i \in DOMAIN co_in :
              LET k == BucketKey(co_in[i])
                  total == SumPositive(co_in, k, Len(co_in))
              IN IF total > 0
                 THEN /\ Cardinality(OutputsOf(co_out, k)) = 1
                      /\ \A j \in OutputsOf(co_out, k) : co_out[j].quantity = total
                 ELSE OutputsOf(co_out, k) = {}
        /\ \A j \in DOMAIN co_out :
              \E i \in DOMAIN co_in : BucketKey(co_in[i]) = OrderKey(co_out[j])

\* C7 witness: two input orders of one key, with quantities 1 and -1, gave one order
\* of quantity 1.
C7_Witness ==
    /\ co_pc = "once"
    /\ Len(co_in) = 2
    /\ BucketKey(co_in[1]) = BucketKey(co_in[2])
    /\ co_in[1].quantity = 1
    /\ co_in[2].quantity = -1
    /\ Len(co_out) = 1
    /\ co_out[1].quantity = 1

\* C8: a step of the submission pass always goes on to the next order; it calls
\* _submit_one when the order's status is not one of those skipped, and when the call
\* fails the order's status becomes "error: " followed by the failure reason.
C8_FailureIsolated ==
    [][(ex_pc = "submit" /\ ex_i <= Len(queue)) =>
          /\ ex_pc' = "submit"
          /\ ex_i' = ex_i + 1
          /\ \A j \in DOMAIN queue : j # ex_i => queue'[j] = queue[j]
          /\ IF NormStatus(queue[ex_i].status) \in ListedSkipStatuses \cup {"canceled"}
             THEN calls' = calls
             ELSE /\ Len(calls') = Len(calls) + 1
                  /\ calls'[Len(calls')].i = ex_i
                  /\ calls'[Len(calls')].o = queue[ex_i]
                  /\ ~calls'[Len(calls')].resp.ok =>
                        queue'[ex_i] =
                            [queue[ex_i] EXCEPT
                                !.status = "error: " \o calls'[Len(calls')].resp.err]]_vars

\* C8 witness: in one pass a submission failed and a later order was submitted.
C8_Witness ==
    /\ ex_pc = "submit"
    /\ \E k, l \in DOMAIN calls :
          /\ calls[k].i < calls[l].i
          /\ ~calls[k].resp.ok
          /\ queue[calls[k].i].status = "error: rejected"
          /\ calls[l].resp.ok
          /\ queue[calls[l].i].order_id # 0

\* C9: a cycle whose gate reads a time outside the window ends with no submit_order
\* call, no list_orders call, no queue write and no portfolio application.
C9_OutsideWindowNoOp ==
    [][((ex_pc = "gate" /\ ~InsideWindow(ex_time)) \/ ex_result = "outside_window") =>
          /\ UNCHANGED <<disk, calls, ex_polls, ex_applied, applied_count, next_oid>>
          /\ calls = << >>
          /\ ex_applied = << >>
          /\ ex_polls = 0
          /\ \/ ex_pc' = "done" /\ ex_result' = "outside_window"
             \/ ex_pc = "done" /\ ex_pc' = "idle"]_vars

\* C9 witness: a cycle ended outside the window while the queue held an order it
\* would have submitted.
C9_Witness ==
    /\ ex_pc = "done"
    /\ ex_result = "outside_window"
    /\ Eligible(disk) # {}

\* C10: over any sequence of cycles an order is applied to the Portfolio Store at most
\* once.
\* Violated: the settlement loop applies every order of the queue whose status is
\* filled, also one that was filled and applied in an earlier cycle.
C10_AppliedAtMostOnce == \A id \in DOMAIN applied_count : applied_count[id] <= 1

\* the status, order_id and identity fields of a stored order
CoreFields(o) ==
    <<o.status, o.order_id, o.id, o.ticker, o.side, o.quantity, o.order_type, o.limit_price>>

\* C11: once an order of the executor's queue has status filled or cancelled, no step of
\* the submission pass or of the poll loop changes its status, order_id or identity
\* fields.
\* Violated: a poll iteration copies every terminal status the broker reports into the
\* order, also into one that is filled or cancelled already.
C11_TerminalOrderUntouched ==
    [][\A i \in DOMAIN queue :
          (/\ ex_pc \in {"submit", "poll"}
           /\ NormStatus(queue[i].status) \in {"filled", "cancelled"})
          => CoreFields(queue'[i]) = CoreFields(queue[i])]_vars

\* the identity fields of a stored order
IdentityFields(o) == <<o.id, o.ticker, o.side, o.quantity, o.order_type, o.limit_price>>

PendingInputs(existing, new_orders, final) ==
    LET keep(it) == it.order_id = 0 /\ it.status \notin final
    IN SelectSeq(existing, keep) \o new_orders

\* the merged output has none of the orders of existing whose status is in final, and
\* each of its orders without an order_id has the quantity of the pending inputs of
\* its key
DropsStatuses(existing, new_orders, merged, final) ==
    /\ \A i \in DOMAIN existing :
          existing[i].status \in final => Occurrences(merged, existing[i]) = 0
    /\ \A j \in DOMAIN merged :
          merged[j].order_id = 0 =>
              LET inputs == PendingInputs(existing, new_orders, final)
              IN merged[j].quantity = SumPositive(inputs, OrderKey(merged[j]), Len(inputs))

C14_PollFailureSwallowed ==
    [][ex_pc = "poll" =>
          /\ ex_pc' \in {"poll", "settle"}
          /\ ex_result' # "unhandled_exception"]_vars

\* resp.get("status") or "submitted"
StatusAtSubmission(resp) == IF resp.status = None THEN "submitted" ELSE resp.status

\* the successful submissions of this cycle for which no poll showed a terminal status
Unreported == {k \in DOMAIN calls : calls[k].resp.ok /\ calls[k].resp.order_id \notin ex_reported}

TrackedAllTerminal(q) ==
    \A i \in DOMAIN q :
        q[i].order_id # 0 =>
            \/ NormStatus(q[i].status) \in {"filled", "cancelled", "canceled"}
            \/ q[i].status \in ErrorStatuses

\* C16: a poll iteration starts only when some order with an order_id has a
\* non-terminal status, and the loop is left at the end of an iteration after which
\* every order with an order_id has a terminal status.
\* Violated: the loop runs on known_ids, the ids of all orders that have one, which is
\* computed once and holds the terminal orders too; and all_filled is computed from
\* what this iteration's list shows, not from the statuses of the orders.
C16_PollsOnlyWhileNonTerminal ==
    [][(ex_pc = "poll" /\ ex_polls' = ex_polls + 1) =>
          /\ ~TrackedAllTerminal(queue)
          /\ TrackedAllTerminal(queue') => ex_pc' = "settle"]_vars

\* C17: between the iterations of the submission pass, every order submitted
\* successfully so far in this cycle stands in the persisted queue with the order_id
\* and status the broker returned, so that a crash there loses none of them.
\* Violated: the loop changes the in-memory queue only; _write_queue is called once,
\* after the loop.
C17_PersistedAfterEachSubmit ==
    ex_pc = "submit" =>
        \A k \in DOMAIN calls :
            calls[k].resp.ok =>
                /\ disk[calls[k].i].order_id = calls[k].resp.order_id
                /\ disk[calls[k].i].status = StatusAtSubmission(calls[k].resp)

\* some intent of the payload fails validation (cash is the cash of the model)
HasInvalidIntent(model_json) ==
    \E c \in CashValues :
        \/ \E i \in DOMAIN model_json.buy : ~ItemValid(model_json.buy[i], c)
        \/ \E i \in DOMAIN model_json.sell : ~ItemValid(model_json.sell[i], c)

\* C18: a reconciliation whose decision payload has an intent that fails validation
\* ends with the validation error and never changes the persisted queue.
C18_InvalidPayloadWritesNothing ==
    [][(HasInvalidIntent(rec_json) \/ HasInvalidIntent(rec_json')) =>
          /\ disk' = disk
          /\ rec_pc' \in {"done", "idle"}
          /\ rec_pc' = "done" => rec_result' = "validation_error"]_vars

\* C18 witness: a reconciliation has ended on a payload with one valid and one invalid
\* intent, and the queue, which held an order, is as it was.
C18_Witness ==
    /\ rec_pc = "done"
    /\ rec_result = "validation_error"
    /\ HasInvalidIntent(rec_json)
    /\ \E c \in CashValues, i \in DOMAIN rec_json.buy : ItemValid(rec_json.buy[i], c)
    /\ disk # << >>

\* C19: at every step of a queue write, and after a writer has stopped at any step, the
\* queue file is either as it was when the write began or holds the complete new
\* document; when it exists, a reader parses it and gets one of the two documents.
C19_ReaderSeesOldOrNew ==
    LET seen == fs[QueuePath]
    IN wr_pc # "off" =>
          /\ seen = wr_old \/ seen = FileOf(JsonDump(wr_data))
          /\ seen.exists =>
                /\ JsonLoad(seen.content).ok
                /\ ReadQueue(seen) \in {ReadQueue(wr_old), wr_data}

\* C19 witness: a writer stopped while filling the temporary file, which holds a part
\* of the new document; the queue file still holds the previous, different document.
C19_Witness ==
    /\ wr_pc = "idle"
    /\ fs[TmpOf(QueuePath)].exists
    /\ Len(fs[TmpOf(QueuePath)].content) \in 1..(Len(JsonDump(wr_data)) - 1)
    /\ ~JsonLoad(fs[TmpOf(QueuePath)].content).ok
    /\ fs[QueuePath] = wr_old
    /\ wr_old.exists
    /\ ReadQueue(wr_old) # wr_data

\* the broker order ids the running cycle has recorded in its queue and written
RecordedIds ==
    IF ex_pc \in {"poll", "settle", "done"}
    THEN {calls[k].resp.order_id : k \in {l \in DOMAIN calls : calls[l].resp.ok}}
    ELSE {}

\* the order ids that stand in the queue document q
IdsIn(q) == {q[i].order_id : i \in {j \in DOMAIN q : q[j].order_id # 0}}

\* C20: every write replaces the queue document by what the writer computed from its
\* own load: the Reconciler's write holds no order_id that was not in the document it
\* loaded, and the executor's writes hold exactly the orders it loaded at its gate; so
\* whatever the other invocation wrote in between is lost.
C20_WriteKeepsOnlyOwnLoad ==
    [][/\ (rec_pc = "loaded" /\ rec_pc' = "done") =>
             IdsIn(disk') \subseteq IdsIn(rec_existing)
       /\ ((ex_pc = "submit" /\ ex_pc' = "poll") \/ ex_polls' = ex_polls + 1) =>
             /\ Len(disk') = Len(queue)
             /\ \A j \in DOMAIN queue : IdentityFields(disk'[j]) = IdentityFields(queue[j])]_vars

\* C20 witness: the executor recorded an order_id and wrote it; a reconciliation that
\* had loaded the queue before that has written since: the order_id is in no order of
\* the queue document, which holds the order as pending again.
C20_Witness ==
    /\ RecWritten
    /\ \E id \in RecordedIds :
          /\ id \notin IdsIn(disk)
          /\ id \in IdsIn(queue)
          /\ \E i \in DOMAIN disk, j \in DOMAIN queue :
                /\ queue[j].order_id = id
                /\ OrderKey(disk[i]) = OrderKey(queue[j])
                /\ disk[i].order_id = 0

\* C21: a queue file that is missing, unparseable or not a list reads as the empty queue
\* in the Reconciler and in the executor, neither raising; on an empty queue inside the
\* window the executor ends normally without a submission, a write or an application.
C21_NoListReadsEmpty ==
    [][fs[QueuePath] \in NoListFiles \cup {FileOf(JsonDump(<< >>))}
         => /\ (rec_pc = "idle" /\ rec_pc' # "idle"
                  => \/ rec_pc' = "loaded" /\ rec_existing' = << >>
                     \/ rec_pc' = "done" /\ rec_result' = "validation_error")
            /\ (ex_pc = "gate" /\ InsideWindow(ex_time)
                  => /\ ex_pc' = "done"
                     /\ ex_result' = "no_orders"
                     /\ calls' = << >>
                     /\ ex_applied' = << >>
                     /\ UNCHANGED <<disk, fs, applied_count, next_oid>>)]_vars

\* a cycle has ended on "no queued orders" over a document that parses but is no list
C21_Witness ==
    /\ fs[QueuePath] \in NoListFiles
    /\ fs[QueuePath].exists
    /\ JsonLoad(fs[QueuePath].content).ok
    /\ JsonLoad(fs[QueuePath].content).data # << >>
    /\ ex_pc = "done"
    /\ ex_result = "no_orders"

\* the intents of the Normalizer call, in the order add() takes them, and their sides
NzIntents == fn_in.model_json.buy \o fn_in.model_json.sell

\* the status an order is shown with: _norm_status(o.get("status")) or "pending"
StatusShown(o) == IF NormStatus(o.status) = "" THEN "pending" ELSE NormStatus(o.status)

\* (ticker, side, quantity, order_type, limit_price) of an order
OwnFields(o) == <<o.ticker, o.side, o.quantity, o.order_type, o.limit_price>>

\* C22 (as stated): every order the Normalizer produces is pending, and its id is a
\* function of its own ticker, side, quantity, order_type and limit_price: two orders
\* that agree on these fields have the same id.
C22_IdOfOwnFields ==
    fn_pc = "out" /\ fn_out.ok =>
        \A i \in DOMAIN fn_out.orders, j \in DOMAIN fn_out.orders :
            /\ StatusShown(fn_out.orders[i]) = "pending"
            /\ OwnFields(fn_out.orders[i]) = OwnFields(fn_out.orders[j])
                  => fn_out.orders[i].id = fn_out.orders[j].id

\* C22 (amended): every order the Normalizer produces has no status and no order_id,
\* which reads as pending, and its id is a function of its own ticker, side, quantity
\* and order_type and of the limit_price as the intent wrote it.
C22_IdOfFieldsAsWritten ==
    fn_pc = "out" /\ fn_out.ok =>
        \A i \in DOMAIN fn_out.orders, j \in DOMAIN fn_out.orders :
            /\ fn_out.orders[i].status = None
            /\ fn_out.orders[i].order_id = 0
            /\ StatusShown(fn_out.orders[i]) = "pending"
            /\ (/\ OwnFields(fn_out.orders[i]) = OwnFields(fn_out.orders[j])
                /\ NzIntents[i].limit_price = NzIntents[j].limit_price)
                  => fn_out.orders[i].id = fn_out.orders[j].id

\* two intents written differently (case of the ticker, a fractional quantity) gave
\* orders with the same fields and the same id
C22_Witness ==
    /\ fn_pc = "out"
    /\ fn_out.ok
    /\ Len(fn_out.orders) = 2
    /\ NzIntents[1].ticker # NzIntents[2].ticker
    /\ NzIntents[1].quantity # NzIntents[2].quantity
    /\ NzIntents[1].limit_price = <<10, 1>>
    /\ OwnFields(fn_out.orders[1]) = OwnFields(fn_out.orders[2])
    /\ fn_out.orders[1].id = fn_out.orders[2].id

\* C23: in every order the Normalizer produces, limit_price is present and > 0 when
\* order_type is LOO and absent when it is MOO, also when the MOO intent gave one.
\* Violated: a MOO intent with a limit_price keeps float(limit_price).
C23_LimitExactlyForLoo ==
    fn_pc = "out" /\ fn_out.ok =>
        \A i \in DOMAIN fn_out.orders :
            LET o == fn_out.orders[i]
            IN /\ o.order_type = "LOO" => o.limit_price # NoLimit /\ o.limit_price[1] > 0
               /\ o.order_type = "MOO" => o.limit_price = NoLimit

\* a ticker the pattern of _strict_upper_ticker admits after stripping: letters, dots
\* and dashes, at least one
LettersDotsDashes(t) ==
    t # << >> /\ \A i \in DOMAIN t : t[i] \in {"a", "b", "A", "B", ".", "-"}

\* letters, digits, dots and dashes, at least one
AlnumDotsDashes(t) ==
    t # << >> /\ \A i \in DOMAIN t : t[i] \in {"a", "b", "A", "B", "1", ".", "-"}

\* the intent is valid but for its ticker
ValidButTicker(item, cash) == ItemValid([item EXCEPT !.ticker = <<"A">>], cash)

\* C26 (as stated): the Normalizer upper-cases the ticker, and an intent that is valid
\* otherwise is accepted exactly when its ticker is non-empty and made of letters,
\* digits, dots and dashes.
C26_AlnumTickerAccepted ==
    fn_pc = "out" /\ Len(NzIntents) = 1 =>
        LET item == NzIntents[1]
        IN /\ fn_out.ok => /\ AlnumDotsDashes(item.ticker)
                           /\ fn_out.orders[1].ticker = UpperSeq(item.ticker)
           /\ ValidButTicker(item, fn_in.portfolio_cash) /\ AlnumDotsDashes(item.ticker)
                 => fn_out.ok

\* C26 (amended): the Normalizer strips the blanks around the ticker and upper-cases
\* it, and an intent that is valid otherwise is accepted exactly when the stripped
\* ticker is non-empty and made of letters, dots and dashes; a digit fails it.
C26_LetterTickerAccepted ==
    fn_pc = "out" /\ Len(NzIntents) = 1 =>
        LET item == NzIntents[1]
        IN /\ fn_out.ok => /\ LettersDotsDashes(Strip(item.ticker))
                           /\ fn_out.orders[1].ticker = UpperSeq(Strip(item.ticker))
           /\ ValidButTicker(item, fn_in.portfolio_cash) /\ LettersDotsDashes(Strip(item.ticker))
                 => fn_out.ok

\* a ticker written with a blank before a lower-case letter was accepted as the letter
C26_Witness ==
    /\ fn_pc = "out"
    /\ Len(NzIntents) = 1
    /\ NzIntents[1].ticker = <<" ", "a">>
    /\ fn_out.ok
    /\ fn_out.orders[1].ticker = <<"A">>

\* C27: normalization fails and yields no order list when some intent has an
\* order_type that is not MOO or LOO in any case, or is a LOO intent whose limit_price
\* is missing or not > 0.
C27_BadTypeOrLimitFails ==
    fn_pc = "out" =>
        ((\E i \in DOMAIN NzIntents :
             \/ NzIntents[i].order_type \notin {"moo", "MOO", "loo", "LOO"}
             \/ /\ NzIntents[i].order_type \in {"loo", "LOO"}
                /\ (NzIntents[i].limit_price = NoLimit \/ NzIntents[i].limit_price[1] <= 0))
           => ~fn_out.ok /\ fn_out.orders = << >>)

\* a LOO intent with limit_price 0, fine otherwise, failed the normalization
C27_Witness ==
    /\ fn_pc = "out"
    /\ Len(NzIntents) = 1
    /\ NzIntents[1].ticker = <<"a">>
    /\ NzIntents[1].quantity = <<1>>
    /\ NzIntents[1].order_type = "loo"
    /\ NzIntents[1].limit_price = <<0>>
    /\ ~fn_out.ok

\* C28: an explicit quantity is cast to an integer and must be > 0; a percent gives
\* floor(cash * percent) at the unit price 1, and the intent fails unless that is >= 1.
\* Violated: the percent branch takes max(1, floor(cash * percent)) and never fails.
C28_PercentBelowOneFails ==
    fn_pc = "out" /\ Len(NzIntents) = 1 =>
        LET item == NzIntents[1]
            floor == (fn_in.portfolio_cash * item.percent[1]) \div 100
        IN /\ item.quantity # << >>
                 => /\ fn_out.ok => /\ fn_out.orders[1].quantity = IntOfFloat(item.quantity)
                                    /\ fn_out.orders[1].quantity > 0
                    /\ IntOfFloat(item.quantity) <= 0 => ~fn_out.ok
           /\ item.quantity = << >> /\ item.percent # << >>
                 => /\ fn_out.ok => fn_out.orders[1].quantity = floor
                    /\ floor < 1 => ~fn_out.ok

\* C24: starting from an empty queue, every order of the persisted queue has an
\* integer quantity greater than zero.
C24_PersistedQuantityPositive ==
    \A i \in DOMAIN disk : disk[i].quantity \in Nat /\ disk[i].quantity > 0

\* an order sized from a percent (150 shares for 1.5 of a cash of 100) stands in the
\* persisted queue with the order_id of its submission
C24_Witness ==
    \E i \in DOMAIN disk : disk[i].quantity = 150 /\ disk[i].order_id # 0

C30_DryRunTouchesNothing ==
    [][rec_result' = "dry_run" \/ rec_result = "dry_run"
         => /\ rec_json' = NoPayload
            /\ rec_new' = << >>
            /\ UNCHANGED <<disk, fs, calls, next_oid, ex_polls, ex_applied, applied_count>>]_vars

\* a dry run has ended over a queue that holds orders
C30_Witness ==
    /\ rec_pc = "done"
    /\ rec_result = "dry_run"
    /\ disk # << >>

\* C29: submit_order raises without calling the broker API whenever the ticker is
\* empty or missing, the side is neither buy nor sell, the quantity is not > 0, or the
\* type is limit and the limit_price is missing or not > 0.
\* Violated: a missing ticker becomes the text "None" and is sent to the API.
C29_BadInputRaisesBeforeApi ==
    fn_pc = "out" =>
        ((\/ fn_in.order.ticker \in {NoTicker, << >>}
          \/ fn_in.order.side \notin {"buy", "sell", "BUY"}
          \/ fn_in.order.quantity <= 0
          \/ /\ fn_in.order.type = "limit"
             /\ (fn_in.order.limit_price = NoLimit \/ fn_in.order.limit_price[1] <= 0))
           => ~fn_out.api /\ ~fn_out.resp.ok)

\* the orders of q and r agree, position by position, on everything but status and
\* order_id
SameOrders(q, r) ==
    /\ Len(q) = Len(r)
    /\ \A i \in DOMAIN q :
          /\ IdentityFields(q[i]) = IdentityFields(r[i])
          /\ q[i].validity = r[i].validity
          /\ q[i].rationale = r[i].rationale

\* C31: an executor cycle never adds or removes an order and never changes an order's
\* id, ticker, side, quantity, order_type or limit_price: what it holds and whatever it
\* writes has the orders of the loaded document in their positions, differing at most
\* in status and order_id.
C31_CycleKeepsOrders ==
    [][ex_pc # "idle" =>
          /\ SameOrders(disk, disk')
          /\ (ex_pc' \in {"submit", "poll", "settle"} => SameOrders(queue', disk'))]_vars

\* a cycle has ended over two orders, the first filled and the second in error
C31_Witness ==
    /\ ex_pc = "done"
    /\ ex_result = "complete"
    /\ Len(disk) = 2
    /\ disk[1].status = "filled"
    /\ disk[2].status \in ErrorStatuses

\* C32: a poll iteration changes an order only in its status, and only when the order
\* has an order_id that the broker's list holds with the status filled, cancelled or
\* canceled; every other order is left as it was, and the queue the iteration ends with
\* is the document it writes.
C32_PollChangesListedTerminalOnly ==
    fn_pc = "out" =>
        /\ Len(fn_out.queue) = Len(fn_in.queue)
        /\ fn_out.disk = fn_out.queue
        /\ \A i \in DOMAIN fn_in.queue :
              LET o == fn_in.queue[i]
                  reported == IF o.order_id = 0 THEN "absent" ELSE fn_in.by_id[o.order_id]
              IN IF reported \in {"filled", "cancelled", "canceled"}
                 THEN fn_out.queue[i] = [o EXCEPT !.status = reported]
                 ELSE fn_out.queue[i] = o

\* an iteration over two orders has marked the listed one filled and left the other,
\* which has an order_id the list does not hold, as it was
C32_Witness ==
    /\ fn_pc = "out"
    /\ Len(fn_in.queue) = 2
    /\ fn_in.queue[1].order_id = 1
    /\ fn_in.queue[1].status = "submitted"
    /\ fn_in.by_id[1] = "filled"
    /\ fn_out.queue[1].status = "filled"
    /\ fn_in.queue[2].order_id = 2
    /\ fn_in.by_id[2] = "absent"
    /\ fn_out.queue[2] = fn_in.queue[2]

\* the positions of the filled orders of q that have a quantity > 0
FilledPositions(q) == {i \in DOMAIN q : q[i].status = "filled" /\ q[i].quantity > 0}

\* C33: the settlement pass makes one application for each filled order with a
\* quantity > 0 and none for any other order: a buy when the side is buy and a sell
\* otherwise, at the limit price when there is one > 0 and at the price 0 otherwise.
C33_FilledAppliedOnce ==
    fn_pc = "out" =>
        /\ Len(fn_out) = Cardinality(FilledPositions(fn_in))
        /\ \A i \in FilledPositions(fn_in) :
              LET o == fn_in[i]
                  a == fn_out[Cardinality({j \in FilledPositions(fn_in) : j <= i})]
              IN /\ a.op = IF o.side = "buy" THEN "log_manual_buy" ELSE "log_manual_sell"
                 /\ a.price = IF o.limit_price # NoLimit /\ o.limit_price[1] > 0
                              THEN o.limit_price[1] ELSE 0
                 /\ a.shares = o.quantity
                 /\ a.ticker = o.ticker

\* the pass has passed over an order that is not filled and has sold a filled one at
\* its limit price
C33_Witness ==
    /\ fn_pc = "out"
    /\ Len(fn_in) = 2
    /\ fn_in[1].status = "submitted"
    /\ fn_in[2].status = "filled"
    /\ fn_in[2].side = "sell"
    /\ fn_in[2].quantity = 1
    /\ fn_in[2].limit_price = <<10>>
    /\ Len(fn_out) = 1
    /\ fn_out[1].op = "log_manual_sell"
    /\ fn_out[1].price = 10

\* the seconds since midnight of the time of day t
SecondOfDay(t) == t[1] * 3600 + t[2] * 60 + t[3]

\* C34: the gate is true exactly when the time of day t has 19:00:00 <= t < 24:00:00
\* or 00:00:00 <= t <= 09:28:00.
\* Violated: the gate is true from 09:28:01 to 09:28:59.
C34_GateExactWindow ==
    fn_pc = "out" =>
        (fn_out <=> \/ SecondOfDay(fn_in) >= 19 * 3600
                    \/ SecondOfDay(fn_in) <= 9 * 3600 + 28 * 60)

\* the five fields a Coalescer output order's id is computed from
IdFields(o) == <<o.ticker, o.side, o.quantity, o.order_type, o.limit_price>>

\* C35: each Coalescer output order's id is the hash of its ticker, side, summed
\* quantity, order_type and limit_price, and two output orders that differ in one of
\* the five never have the same id.
\* Violated: an absent limit price and a limit price of 0 are both hashed as "".
C35_IdsSeparateFields ==
    co_pc \in {"once", "twice"} =>
        /\ \A i \in DOMAIN co_out :
              co_out[i].id = HashId(<<co_out[i].ticker, co_out[i].side,
                                      StrInt(co_out[i].quantity), co_out[i].order_type,
                                      StrBucketLimit(co_out[i].limit_price)>>)
        /\ \A i, j \in DOMAIN co_out :
              IdFields(co_out[i]) # IdFields(co_out[j]) => co_out[i].id # co_out[j].id

\* the statuses an order has once the broker has taken it
TakenStatuses == {"submitted", "accepted", "new", "filled", "cancelled"}

\* C36: in every persisted queue an order whose status is submitted, accepted, new,
\* filled or cancelled has an order_id, and an order without an order_id is pending or
\* in error.
\* Violated: a response without an id leaves the order submitted without an order_id.
C36_TakenOrdersHaveId ==
    \A i \in DOMAIN disk :
        /\ disk[i].status \in TakenStatuses => disk[i].order_id # 0
        /\ disk[i].order_id = 0 => disk[i].status = None \/ disk[i].status \in ErrorStatuses

\* the sum of the quantities of the first n of items
RECURSIVE QuantitySum(_, _)
QuantitySum(items, n) ==
    IF n = 0 THEN 0 ELSE QuantitySum(items, n - 1) + items[n].quantity

\* the input items with a quantity > 0, and their keys
HasQuantity(it) == it.quantity > 0
PositiveKeys(items) == {BucketKey(items[i]) : i \in {n \in DOMAIN items : HasQuantity(items[n])}}

\* the position of the first item of key k with a quantity > 0
FirstAt(items, k) ==
    LET at == {i \in DOMAIN items : HasQuantity(items[i]) /\ BucketKey(items[i]) = k}
    IN CHOOSE i \in at : \A j \in at : i <= j

\* C37: the quantities of the Coalescer's output orders add up to the quantities of its
\* input orders that have a quantity > 0; there are as many output orders as distinct
\* (ticker, side, order_type, limit_price) keys among those inputs, one per key, in the
\* order in which the keys first occur.
C37_QuantityConserved ==
    co_pc \in {"once", "twice"} =>
        LET pos == SelectSeq(co_in, HasQuantity)
        IN /\ QuantitySum(co_out, Len(co_out)) = QuantitySum(pos, Len(pos))
           /\ Len(co_out) = Cardinality(PositiveKeys(co_in))
           /\ {OrderKey(co_out[j]) : j \in DOMAIN co_out} = PositiveKeys(co_in)
           /\ \A j, k \in DOMAIN co_out :
                 j < k => FirstAt(co_in, OrderKey(co_out[j])) < FirstAt(co_in, OrderKey(co_out[k]))

\* a limit order and then a market order, each of quantity 1, came out as two orders
\* in that order
C37_Witness ==
    /\ co_pc = "once"
    /\ Len(co_in) = 2
    /\ co_in[1].order_type = "LOO"
    /\ co_in[2].order_type = "MOO"
    /\ co_in[1].quantity = 1
    /\ co_in[2].quantity = 1
    /\ Len(co_out) = 2
    /\ co_out[1].order_type = "LOO"
    /\ co_out[2].order_type = "MOO"

\* C38: after a reconciliation every order of the persisted queue that has no order_id
\* has no status, whatever status was recorded on it before, and the submission pass
\* of an executor cycle passes every order without status and order_id to submit_order.
C38_UnsubmittedOrdersPending ==
    [][/\ RecWritten' =>
             \A i \in DOMAIN disk' : disk'[i].order_id = 0 => disk'[i].status = None
       /\ (/\ ex_pc = "submit"
           /\ ex_i <= Len(queue)
           /\ queue[ex_i].order_id = 0
           /\ queue[ex_i].status = None)
          => /\ Len(calls') = Len(calls) + 1
             /\ calls'[Len(calls')].o = queue[ex_i]]_vars

\* a reconciliation without new intents has written as pending an order that stood in
\* the queue with an error status
C38_Witness ==
    /\ RecWritten
    /\ rec_new = << >>
    /\ Len(rec_existing) = 1
    /\ rec_existing[1].order_id = 0
    /\ rec_existing[1].status \in ErrorStatuses
    /\ Len(disk) = 1
    /\ disk[1].order_id = 0
    /\ disk[1].status = None
    /\ disk[1].quantity = rec_existing[1].quantity

\* C39: while two invocations write the queue at overlapping times, the queue file is
\* at every moment as it was before the writes or the complete document of one of the
\* writes.
\* Violated: the writers share the temporary file, so one publishes what the other has
\* truncated or is still filling.
C39_TargetAlwaysOneWholeWrite ==
    \/ fs[QueuePath] = wr_old
    \/ \E w \in Writers :
          wr_pc[w].pc # "idle" /\ fs[QueuePath] = FileOf(JsonDump(wr_data[w]))

====
